---------------------------- MODULE Spec2Model ----------------------------
(***************************************************************************)
(* KlarText: run log (services/api/app/core/run_logger.py), demo logger    *)
(* (demo/demo_logger.py), metrics reporter and scheduler (scripts/), PDF   *)
(* text cleanup (services/api/app/core/pdf_extractor.py).                  *)
(*                                                                         *)
(* Text is a sequence of characters, each a string; a word that holds no   *)
(* character special to JSON or to the regular expressions (a key name,    *)
(* "de", "r1") is written as one unit.  A file is a sequence of bytes: an  *)
(* ASCII unit is its own byte, the character "U+00E4" (a umlaut) is the    *)
(* two bytes "0xC3" "0xA4".  Floating point numbers are fixed point,       *)
(* counted in thousandths.                                                 *)
(***************************************************************************)
EXTENDS Integers, Sequences, FiniteSets, TLC

(***************************************************************************)
(* Text helpers                                                            *)
(***************************************************************************)
Min(a, b) == IF a <= b THEN a ELSE b

Max(a, b) == IF a >= b THEN a ELSE b

IsPrefix(s, t) == Len(s) <= Len(t) /\ SubSeq(t, 1, Len(s)) = s

RECURSIVE Concat(_)
Concat(ss) == IF ss = <<>> THEN <<>> ELSE Head(ss) \o Concat(Tail(ss))

\* str.join
RECURSIVE Join(_, _)
Join(sep, ss) ==
    IF ss = <<>> THEN <<>>
    ELSE IF Len(ss) = 1 THEN ss[1]
    ELSE ss[1] \o sep \o Join(sep, Tail(ss))

\* characters str.strip() removes
Whitespace == {" ", "\t", "\n", "\r"}

RECURSIVE LStrip(_)
LStrip(s) == IF s # <<>> /\ Head(s) \in Whitespace THEN LStrip(Tail(s)) ELSE s

RECURSIVE RStrip(_)
RStrip(s) ==
    IF s # <<>> /\ s[Len(s)] \in Whitespace THEN RStrip(SubSeq(s, 1, Len(s) - 1)) ELSE s

Strip(s) == RStrip(LStrip(s))

(***************************************************************************)
(* UTF-8: open(..., encoding="utf-8")                                      *)
(***************************************************************************)
MultiByte == {"U+00E4"}

LeadByte == "0xC3"

ContByte == "0xA4"

EncodeChar(c) == IF c \in MultiByte THEN <<LeadByte, ContByte>> ELSE <<c>>

RECURSIVE Utf8Encode(_)
Utf8Encode(s) ==
    IF s = <<>> THEN <<>>
    ELSE IF Len(s) = 1 THEN EncodeChar(s[1])
    ELSE LET h == Len(s) \div 2
         IN  Utf8Encode(SubSeq(s, 1, h)) \o Utf8Encode(SubSeq(s, h + 1, Len(s)))

NotContByte(b) == b # ContByte

\* strict decoding: ok = FALSE stands for UnicodeDecodeError (a lead byte
\* without its continuation byte, or a continuation byte without its lead byte)
Utf8Decode(b) ==
    LET ok == \A i \in 1..Len(b) :
                  /\ b[i] = LeadByte => (i < Len(b) /\ b[i + 1] = ContByte)
                  /\ b[i] = ContByte => (i > 1 /\ b[i - 1] = LeadByte)
        t  == SelectSeq(b, NotContByte)
    IN  [ok |-> ok,
         s  |-> IF ok THEN [i \in 1..Len(t) |-> IF t[i] = LeadByte THEN "U+00E4" ELSE t[i]]
                ELSE <<>>]

(***************************************************************************)
(* JSON values.  t is the Python type; n the number (a float counts        *)
(* thousandths); s the characters of a str; xs the items of a list or the  *)
(* [k, v] pairs of a dict, in insertion order.                             *)
(***************************************************************************)
JVal(t, n, s, xs) == [t |-> t, n |-> n, s |-> s, xs |-> xs]

JNull == JVal("null", 0, <<>>, <<>>)

JInt(i) == JVal("int", i, <<>>, <<>>)

JFloat(m) == JVal("float", m, <<>>, <<>>)

JStr(s) == JVal("str", 0, s, <<>>)

JList(xs) == JVal("list", 0, <<>>, xs)

JDict(kvs) == JVal("dict", 0, <<>>, kvs)

KV(k, v) == [k |-> k, v |-> v]

HasKey(d, k) == \E i \in 1..Len(d.xs) : d.xs[i].k = k

\* d[k]
Get(d, k) == d.xs[CHOOSE i \in 1..Len(d.xs) : d.xs[i].k = k].v

Keys(d) == {d.xs[i].k : i \in 1..Len(d.xs)}

(***************************************************************************)
(* json.dumps(value, ensure_ascii=False)                                   *)
(***************************************************************************)
Digit == <<"0", "1", "2", "3", "4", "5", "6", "7", "8", "9">>

RECURSIVE IntDigits(_)
IntDigits(n) ==
    IF n < 10 THEN <<Digit[n + 1]>> ELSE IntDigits(n \div 10) \o <<Digit[(n % 10) + 1]>>

\* a float printed like an int when it has no fraction
FloatDigitsShort(m) ==
    IF m % 1000 = 0 THEN IntDigits(m \div 1000)
    ELSE IntDigits(m \div 1000) \o <<".">> \o IntDigits(m % 1000)

\* float.__repr__ of m/1000: at least one decimal, no trailing zeros
FloatDigits(m) ==
    LET f  == m % 1000
        d1 == Digit[(f \div 100) + 1]
        d2 == Digit[((f \div 10) % 10) + 1]
        d3 == Digit[(f % 10) + 1]
        frac == IF f % 10 # 0 THEN <<d1, d2, d3>>
                ELSE IF f % 100 # 0 THEN <<d1, d2>>
                ELSE <<d1>>
    IN  IntDigits(m \div 1000) \o <<".">> \o frac

EscapeChar(c) ==
    CASE c = "\"" -> <<"\\", "\"">>
      [] c = "\\" -> <<"\\", "\\">>
      [] c = "\n" -> <<"\\", "n">>
      [] c = "\r" -> <<"\\", "r">>
      [] c = "\t" -> <<"\\", "t">>
      [] OTHER    -> <<c>>

RECURSIVE EscapeStr(_)
EscapeStr(s) ==
    IF s = <<>> THEN <<>>
    ELSE IF Len(s) = 1 THEN EscapeChar(s[1])
    ELSE LET h == Len(s) \div 2
         IN  EscapeStr(SubSeq(s, 1, h)) \o EscapeStr(SubSeq(s, h + 1, Len(s)))

DumpStr(s) == <<"\"">> \o EscapeStr(s) \o <<"\"">>

RECURSIVE JsonDumps(_)
JsonDumps(v) ==
    CASE v.t = "null"  -> <<"n", "u", "l", "l">>
      [] v.t = "int"   -> IntDigits(v.n)
      [] v.t = "float" -> FloatDigits(v.n)
      [] v.t = "str"   -> DumpStr(v.s)
      [] v.t = "list"  ->
            <<"[">> \o Join(<<",", " ">>, [i \in 1..Len(v.xs) |-> JsonDumps(v.xs[i])]) \o <<"]">>
      [] v.t = "dict"  ->
            <<"{">> \o Join(<<",", " ">>,
                        [i \in 1..Len(v.xs) |->
                            DumpStr(v.xs[i].k) \o <<":", " ">> \o JsonDumps(v.xs[i].v)])
                  \o <<"}">>

(***************************************************************************)
(* json.loads(text): a parse result is [ok, v, i], i the next position;    *)
(* ok = FALSE stands for json.JSONDecodeError                              *)
(***************************************************************************)
JsonWs == {" ", "\t", "\n", "\r"}

DigitChars == {Digit[i] : i \in 1..10}

DigitVal(c) == (CHOOSE i \in 1..10 : Digit[i] = c) - 1

Fail == [ok |-> FALSE, v |-> JNull, i |-> 0]

Ok(v, i) == [ok |-> TRUE, v |-> v, i |-> i]

At(s, i) == IF i >= 1 /\ i <= Len(s) THEN s[i] ELSE "EOF"

RECURSIVE SkipWs(_, _)
SkipWs(s, i) == IF At(s, i) \in JsonWs THEN SkipWs(s, i + 1) ELSE i

Unescape(c) ==
    CASE c = "n" -> "\n"
      [] c = "r" -> "\r"
      [] c = "t" -> "\t"
      [] OTHER   -> c

\* s[i] is the first character after the opening quote
RECURSIVE ParseString(_, _, _)
ParseString(s, i, acc) ==
    LET c == At(s, i)
    IN  IF c = "EOF" \/ c \in {"\n", "\r", "\t"} THEN Fail
        ELSE IF c = "\"" THEN Ok(JStr(acc), i + 1)
        ELSE IF c = "\\"
             THEN IF At(s, i + 1) \in {"\"", "\\", "n", "r", "t"}
                  THEN ParseString(s, i + 2, Append(acc, Unescape(At(s, i + 1))))
                  ELSE Fail
        ELSE ParseString(s, i + 1, Append(acc, c))

RECURSIVE ParseDigits(_, _, _, _)
ParseDigits(s, i, acc, cnt) ==
    IF At(s, i) \in DigitChars
    THEN ParseDigits(s, i + 1, acc * 10 + DigitVal(At(s, i)), cnt + 1)
    ELSE [n |-> acc, cnt |-> cnt, i |-> i]

Pow10(k) == CASE k = 0 -> 1 [] k = 1 -> 10 [] k = 2 -> 100 [] OTHER -> 1000

\* int, or float when a fraction follows (at most three decimals here)
ParseNumber(s, i) ==
    LET ip == ParseDigits(s, i, 0, 0)
    IN  IF ip.cnt = 0 \/ (ip.cnt > 1 /\ At(s, i) = "0") THEN Fail
        ELSE IF At(s, ip.i) = "."
             THEN LET fp == ParseDigits(s, ip.i + 1, 0, 0)
                  IN  IF fp.cnt = 0 \/ fp.cnt > 3 THEN Fail
                      ELSE Ok(JFloat(ip.n * 1000 + fp.n * Pow10(3 - fp.cnt)), fp.i)
        ELSE Ok(JInt(ip.n), ip.i)

ParseNull(s, i) ==
    IF At(s, i) = "n" /\ At(s, i + 1) = "u" /\ At(s, i + 2) = "l" /\ At(s, i + 3) = "l"
    THEN Ok(JNull, i + 4)
    ELSE Fail

RECURSIVE ParseValue(_, _)
RECURSIVE ParseItems(_, _, _)
RECURSIVE ParseMembers(_, _, _)

\* s[i] is the first character of the value
ParseValue(s, i) ==
    LET c == At(s, i)
    IN  CASE c = "\"" -> ParseString(s, i + 1, <<>>)
          [] c = "{"  ->
                IF At(s, SkipWs(s, i + 1)) = "}" THEN Ok(JDict(<<>>), SkipWs(s, i + 1) + 1)
                ELSE ParseMembers(s, SkipWs(s, i + 1), <<>>)
          [] c = "["  ->
                IF At(s, SkipWs(s, i + 1)) = "]" THEN Ok(JList(<<>>), SkipWs(s, i + 1) + 1)
                ELSE ParseItems(s, SkipWs(s, i + 1), <<>>)
          [] c = "n"  -> ParseNull(s, i)
          [] c \in DigitChars -> ParseNumber(s, i)
          [] OTHER    -> Fail

\* s[i] is the first character of an item of a list
ParseItems(s, i, acc) ==
    LET r == ParseValue(s, i)
        j == SkipWs(s, r.i)
    IN  IF ~r.ok THEN Fail
        ELSE IF At(s, j) = "," THEN ParseItems(s, SkipWs(s, j + 1), Append(acc, r.v))
        ELSE IF At(s, j) = "]" THEN Ok(JList(Append(acc, r.v)), j + 1)
        ELSE Fail

\* a later value of a repeated key replaces the earlier one
PutKey(kvs, k, v) ==
    IF \E x \in 1..Len(kvs) : kvs[x].k = k
    THEN [x \in 1..Len(kvs) |-> IF kvs[x].k = k THEN KV(k, v) ELSE kvs[x]]
    ELSE Append(kvs, KV(k, v))

\* s[i] is the opening quote of a key
ParseMembers(s, i, acc) ==
    IF At(s, i) # "\"" THEN Fail
    ELSE LET k == ParseString(s, i + 1, <<>>)
             j == SkipWs(s, k.i)
         IN  IF ~k.ok \/ At(s, j) # ":" THEN Fail
             ELSE LET r  == ParseValue(s, SkipWs(s, j + 1))
                      j2 == SkipWs(s, r.i)
                  IN  IF ~r.ok THEN Fail
                      ELSE IF At(s, j2) = ","
                           THEN ParseMembers(s, SkipWs(s, j2 + 1), PutKey(acc, k.v.s, r.v))
                      ELSE IF At(s, j2) = "}"
                           THEN Ok(JDict(PutKey(acc, k.v.s, r.v)), j2 + 1)
                      ELSE Fail

\* one value, surrounded by optional whitespace, and nothing else
JsonLoads(s) ==
    LET r == ParseValue(s, SkipWs(s, 1))
    IN  IF r.ok /\ SkipWs(s, r.i) = Len(s) + 1 THEN r ELSE Fail

(***************************************************************************)
(* Reading a log file line by line (for line in f, universal newlines)     *)
(***************************************************************************)
NotDropped(p) == ~(p[1] = "\n" /\ p[2] = "\r")

\* newline translation: "\r\n" and "\r" are read as "\n"
Universal(s) ==
    LET pairs == [i \in 1..Len(s) |-> <<s[i], IF i > 1 THEN s[i - 1] ELSE "">>]
        kept  == SelectSeq(pairs, NotDropped)
    IN  [i \in 1..Len(kept) |-> IF kept[i][1] = "\r" THEN "\n" ELSE kept[i][1]]

\* the pieces of s between its "\n"; the last piece is what follows the last "\n"
RECURSIVE Pieces(_)
Pieces(s) ==
    IF s = <<>> THEN << <<>> >>
    ELSE IF Len(s) = 1 THEN (IF s[1] = "\n" THEN << <<>>, <<>> >> ELSE <<s>>)
    ELSE LET h == Len(s) \div 2
             l == Pieces(SubSeq(s, 1, h))
             r == Pieces(SubSeq(s, h + 1, Len(s)))
         IN  SubSeq(l, 1, Len(l) - 1) \o << l[Len(l)] \o r[1] >> \o Tail(r)

\* the lines of a text, each without its line end; a last line need not have one
SplitLines(s) ==
    LET ps == Pieces(Universal(s))
    IN  IF ps[Len(ps)] = <<>> THEN SubSeq(ps, 1, Len(ps) - 1) ELSE ps

\* how a call ends: it raises the exception exc, or it returns val
Raised(exc) == [raised |-> TRUE, exc |-> exc, val |-> <<>>]

Returned(v) == [raised |-> FALSE, exc |-> "", val |-> v]

\* run_logger: a line json.loads rejects is skipped
RECURSIVE RunLoggerLines(_)
RunLoggerLines(lines) ==
    IF lines = <<>> THEN <<>>
    ELSE LET line == Strip(Head(lines))
         IN  IF line # <<>> /\ JsonLoads(line).ok
             THEN <<JsonLoads(line).v>> \o RunLoggerLines(Tail(lines))
             ELSE RunLoggerLines(Tail(lines))

\* run_logger.load_all_logs on the bytes of the file
LoadAllLogs(bytes) ==
    IF ~Utf8Decode(bytes).ok THEN Raised("UnicodeDecodeError")
    ELSE Returned(RunLoggerLines(SplitLines(Utf8Decode(bytes).s)))

(***************************************************************************)
(* The run log: state                                                      *)
(***************************************************************************)
VARIABLES
    \* the run log of the API service (run_logger.py)
    file,       \* bytes of the run log file (api_runs.jsonl)
    lock,       \* the writer that holds the flock on the file, or "free"
    pc,         \* pc[w]: where writer w is in write_log_entry
    entry,      \* entry[w]: the entry writer w has built
    buf,        \* buf[w]: bytes written to w's file object, not yet in the file
    written,    \* entries whose line is completely in the file, in file order
    returned,   \* the entries that calls of write_log_entry have returned
    nwrites,    \* calls of write_log_entry so far
    rpc,        \* where the reader is in load_all_logs
    rseen,      \* what was written when the reader's call started
    rres,       \* the result the reader's call is about to return
    \* loading and aggregating a log file (demo_logger.py, metrics_reporter.py)
    content,    \* the log file that is loaded: PathArg(bytes) or MissingPath
    runLoaded,  \* result of run_logger.load_all_logs on it, or Pending
    demoLoaded, \* result of demo_logger.load_all_logs on it, or Pending
    statsPath,  \* result of compute_aggregate_stats(path of the file), or Pending
    statsList,  \* result of compute_aggregate_stats(entries) in run_report, or Pending
    \* the scheduler (run_scheduled_metrics.py)
    running,    \* the flag _running
    spc,        \* where run_scheduled_report is
    mode,       \* its arguments console_only, run_once, json_format
    iteration,  \* its counter of report runs
    sleepLeft,  \* minutes of the sleep between two reports still to go
    overview,   \* the blocks of the consolidated overview file
    reportFiles, \* individual report files written, by iteration
    failures,   \* iterations whose report raised
    \* PDF text cleanup (pdf_extractor.py, pdf_utils.py)
    rawText,    \* the extracted text
    cleaned,    \* clean_extracted_text(rawText), once cpc says so
    recleaned,  \* clean_extracted_text(cleaned), once cpc says so
    cpc,        \* "raw", "cleaned" or "recleaned"
    \* guardrails (demo_logger.py)
    metrics,    \* a metric record
    verdict,    \* evaluate_guardrails(metrics), once gpc says so
    gpc,        \* "given" or "evaluated"
    \* scoring a text (demo_logger.py, app.py)
    outText,     \* the output text that is scored
    cosine,      \* what compute_meaning_cosine returns for it, in thousandths
    sentences,   \* result of split_sentences(outText), or Pending
    metricRec,   \* result of compute_metrics(source, outText), or Pending
    scores,      \* result of compute_simple_scores(outText), or Pending
    \* the endpoints /v1/log-run and /v1/simplify/batch (main.py)
    logResponses, \* the responses log_run has returned, in order
    batchTexts,  \* the texts of the batch request
    llmCalls,    \* the calls of simplify_text_with_llm that simplify_batch made
    batchResponse, \* result of simplify_batch, or Pending
    \* failures inside write_log_entry (run_logger.py)
    failedAt,    \* failedAt[w]: the step of writer w's call that raised, or "none"
    raised,      \* the calls of write_log_entry that ended with an exception, in order
    \* preparing a text for speech (tts_adapter.py)
    ttsText,     \* the text given to preprocess_text_for_tts
    spoken,      \* preprocess_text_for_tts(ttsText), once ttspc says so
    ttspc,       \* "given" or "done"
    \* extracting the text of an uploaded PDF (pdf_extractor.py)
    pdfDoc,      \* the uploaded document: what PyMuPDF makes of it and of its pages
    pdfpc,       \* "start", "open", "page" or "done"
    tmpExists,   \* the temporary file of extract_pdf_text exists
    docOpen,     \* the PyMuPDF document is open
    pageNo,      \* pages the loop has gone through
    allText,     \* all_text: the texts of the pages that had some
    pdfWarnings, \* warnings
    pdfResult,   \* what extract_pdf_text returned or raised
    \* annotating the averages of the text report (metrics_reporter.py)
    reportMarks, \* per row of metric_display what the report puts after the value
    mpc,         \* "given" or "done"
    \* a breakdown of the loaded entries (metrics_reporter.py)
    breakKey,    \* the key the entries are grouped by
    breakdown    \* what _compute_breakdown(logs, breakKey) returned or raised

logVars == <<file, lock, pc, entry, buf, written, returned, nwrites, rpc, rseen, rres>>

loadVars == <<content, runLoaded, demoLoaded, statsPath, statsList>>

schedVars == <<running, spc, mode, iteration, sleepLeft, overview, reportFiles, failures>>

cleanVars == <<rawText, cleaned, recleaned, cpc>>

guardVars == <<metrics, verdict, gpc>>

scoreVars == <<outText, cosine, sentences, metricRec, scores>>

apiVars == <<logResponses, batchTexts, llmCalls, batchResponse>>

failVars == <<failedAt, raised>>

ttsVars == <<ttsText, spoken, ttspc>>

pdfVars == <<pdfDoc, pdfpc, tmpExists, docOpen, pageNo, allText, pdfWarnings, pdfResult>>

markVars == <<reportMarks, mpc>>

breakVars == <<breakKey, breakdown>>

vars == <<logVars, loadVars, schedVars, cleanVars, guardVars, scoreVars, apiVars, failVars, ttsVars, pdfVars, markVars, breakVars>>

\* a result not computed yet
Pending == [raised |-> FALSE, exc |-> "pending", val |-> <<>>]

Writers == {"w1", "w2"}

MaxWrites == 2

None == JNull

\* arguments of write_log_entry
LogCalls ==
    { [run_id |-> <<"r1">>, input_text |-> <<"a">>, output_text |-> <<"b">>,
       target_lang |-> <<"de">>, level |-> <<"easy">>, model_used |-> <<"m1">>,
       latency_ms |-> 250, chunk_count |-> 1, scores |-> None, warnings |-> None,
       user_feedback |-> None, timestamp |-> None],
      [run_id |-> <<"r2">>, input_text |-> <<"U+00E4", "\n", "\"">>, output_text |-> <<"a", " ", "b">>,
       target_lang |-> <<"en">>, level |-> <<"medium">>, model_used |-> <<"m1">>,
       latency_ms |-> 1200, chunk_count |-> 2,
       scores |-> JDict(<<KV(<<"lix">>, JFloat(37300)), KV(<<"avg_sentence_len">>, JFloat(12000)),
                          KV(<<"word_count">>, JInt(15))>>),
       warnings |-> JList(<<JStr(<<"w1">>)>>),
       user_feedback |-> JStr(<<"flag">>), timestamp |-> JStr(<<"t1">>)] }

\* datetime.now(timezone.utc).isoformat()
Clock == {<<"t2">>}

\* x or default
OrElse(x, default) ==
    IF x = None \/ (x.t \in {"list", "dict"} /\ x.xs = <<>>) THEN default ELSE x

\* the entry write_log_entry builds
BuildEntry(a, now) ==
    JDict(<< KV(<<"run_id">>, JStr(a.run_id)),
             KV(<<"timestamp">>, IF a.timestamp = None THEN JStr(now) ELSE a.timestamp),
             KV(<<"input_text">>, JStr(a.input_text)),
             KV(<<"output_text">>, JStr(a.output_text)),
             KV(<<"input_length">>, JInt(Len(a.input_text))),
             KV(<<"output_length">>, JInt(Len(a.output_text))),
             KV(<<"target_lang">>, JStr(a.target_lang)),
             KV(<<"level">>, JStr(a.level)),
             KV(<<"model_used">>, JStr(a.model_used)),
             KV(<<"latency_ms">>, JInt(a.latency_ms)),
             KV(<<"chunk_count">>, JInt(a.chunk_count)),
             KV(<<"scores">>, OrElse(a.scores, JDict(<<>>))),
             KV(<<"warnings">>, OrElse(a.warnings, JList(<<>>))),
             KV(<<"user_feedback">>, a.user_feedback) >>)

\* json.dumps(entry, ensure_ascii=False) + "\n", encoded for the file
EntryLine(e) == Utf8Encode(JsonDumps(e) \o <<"\n">>)

(***************************************************************************)
(* write_log_entry, step by step                                           *)
(***************************************************************************)
\* the call: build the entry and open the file for appending
Open(w) ==
    /\ pc[w] = "idle"
    /\ nwrites < MaxWrites
    /\ \E a \in LogCalls, now \in Clock :
          entry' = [entry EXCEPT ![w] = BuildEntry(a, now)]
    /\ pc' = [pc EXCEPT ![w] = "flock"]
    /\ nwrites' = nwrites + 1
    /\ UNCHANGED <<file, lock, buf, written, returned, rpc, rseen, rres>>
    /\ UNCHANGED <<loadVars, schedVars, cleanVars, guardVars, scoreVars, apiVars, failVars, ttsVars, pdfVars, markVars, breakVars>>

\* a lock that excludes nobody
CanLockShared(w) == TRUE

\* fcntl.flock(f.fileno(), fcntl.LOCK_EX) returns once no other open file holds the lock
CanLock(w) == lock = "free"

Flock(w) ==
    /\ pc[w] = "flock"
    /\ CanLock(w)
    /\ lock' = w
    /\ pc' = [pc EXCEPT ![w] = "write"]
    /\ UNCHANGED <<file, entry, buf, written, returned, nwrites, rpc, rseen, rres>>
    /\ UNCHANGED <<loadVars, schedVars, cleanVars, guardVars, scoreVars, apiVars, failVars, ttsVars, pdfVars, markVars, breakVars>>

\* f.write(json.dumps(entry, ensure_ascii=False) + "\n")
Write(w) ==
    /\ pc[w] = "write"
    /\ buf' = [buf EXCEPT ![w] = EntryLine(entry[w])]
    /\ pc' = [pc EXCEPT ![w] = "flush"]
    /\ UNCHANGED <<file, lock, entry, written, returned, nwrites, rpc, rseen, rres>>
    /\ UNCHANGED <<loadVars, schedVars, cleanVars, guardVars, scoreVars, apiVars, failVars, ttsVars, pdfVars, markVars, breakVars>>

\* Sizes of the next piece of b that reaches the file.  A piece of any other
\* size is a run of one-byte pieces, so every prefix of b is reached.
PieceSizes(b) == {1, Len(b)}

\* a file opened with mode "w" instead of "a"
Truncating(f, piece) == piece

\* a write to a file opened with mode "a" (O_APPEND) lands at the end of the file
AppendBytes(f, piece) == f \o piece

\* f.flush(): the bytes reach the end of the file, in one piece or in several
Flush(w) ==
    /\ pc[w] = "flush"
    /\ \E n \in PieceSizes(buf[w]) :
          /\ file' = AppendBytes(file, SubSeq(buf[w], 1, n))
          /\ buf' = [buf EXCEPT ![w] = SubSeq(buf[w], n + 1, Len(buf[w]))]
          /\ IF n = Len(buf[w])
             THEN /\ pc' = [pc EXCEPT ![w] = "unlock"]
                  /\ written' = Append(written, entry[w])
             ELSE UNCHANGED <<pc, written>>
    /\ UNCHANGED <<lock, entry, returned, nwrites, rpc, rseen, rres>>
    /\ UNCHANGED <<loadVars, schedVars, cleanVars, guardVars, scoreVars, apiVars, failVars, ttsVars, pdfVars, markVars, breakVars>>

\* fcntl.flock(f.fileno(), fcntl.LOCK_UN) in the finally clause, reached with or
\* without an exception in flight
Unlock(w) ==
    /\ pc[w] = "unlock"
    /\ lock' = "free"
    /\ pc' = [pc EXCEPT ![w] = IF failedAt[w] = "none" THEN "return" ELSE "except"]
    /\ UNCHANGED <<file, entry, buf, written, returned, nwrites, rpc, rseen, rres>>
    /\ UNCHANGED <<loadVars, schedVars, cleanVars, guardVars, scoreVars, apiVars, failVars, ttsVars, pdfVars, markVars, breakVars>>

\* the file is closed and the entry returned
Return(w) ==
    /\ pc[w] = "return"
    /\ returned' = returned \cup {entry[w]}
    /\ pc' = [pc EXCEPT ![w] = "idle"]
    /\ UNCHANGED <<file, lock, entry, buf, written, nwrites, rpc, rseen, rres>>
    /\ UNCHANGED <<loadVars, schedVars, cleanVars, guardVars, scoreVars, apiVars, failVars, ttsVars, pdfVars, markVars, breakVars>>

(***************************************************************************)
(* load_all_logs of the run logger, concurrent with the writers            *)
(***************************************************************************)
LoadStart ==
    /\ rpc = "idle"
    /\ rpc' = "reading"
    /\ rseen' = written
    /\ UNCHANGED <<file, lock, pc, entry, buf, written, returned, nwrites, rres>>
    /\ UNCHANGED <<loadVars, schedVars, cleanVars, guardVars, scoreVars, apiVars, failVars, ttsVars, pdfVars, markVars, breakVars>>

\* the loop reads to the end of the file as it is then
LoadRead ==
    /\ rpc = "reading"
    /\ rres' = LoadAllLogs(file)
    /\ rpc' = "done"
    /\ UNCHANGED <<file, lock, pc, entry, buf, written, returned, nwrites, rseen>>
    /\ UNCHANGED <<loadVars, schedVars, cleanVars, guardVars, scoreVars, apiVars, failVars, ttsVars, pdfVars, markVars, breakVars>>

\* the caller takes the result
LoadReturn ==
    /\ rpc = "done"
    /\ rpc' = "idle"
    /\ rseen' = <<>>
    /\ rres' = Returned(<<>>)
    /\ UNCHANGED <<file, lock, pc, entry, buf, written, returned, nwrites>>
    /\ UNCHANGED <<loadVars, schedVars, cleanVars, guardVars, scoreVars, apiVars, failVars, ttsVars, pdfVars, markVars, breakVars>>

LogNext ==
    \/ \E w \in Writers : Open(w)
    \/ \E w \in Writers : Flock(w)
    \/ \E w \in Writers : Write(w)
    \/ \E w \in Writers : Flush(w)
    \/ \E w \in Writers : Unlock(w)
    \/ \E w \in Writers : Return(w)
    \/ LoadStart
    \/ LoadRead
    \/ LoadReturn

(***************************************************************************)
(* write_log_entry when a step fails.  The error persists until the call   *)
(* has ended: bytes that are still buffered when the file is closed are    *)
(* lost.                                                                   *)
(***************************************************************************)
\* open(log_file, "a") raises: the entry is built, no file is opened
OpenFail(w) ==
    /\ pc[w] = "idle"
    /\ nwrites < MaxWrites
    /\ \E a \in LogCalls, now \in Clock :
          entry' = [entry EXCEPT ![w] = BuildEntry(a, now)]
    /\ pc' = [pc EXCEPT ![w] = "except"]
    /\ failedAt' = [failedAt EXCEPT ![w] = "open"]
    /\ nwrites' = nwrites + 1
    /\ UNCHANGED <<file, lock, buf, written, returned, rpc, rseen, rres, raised>>
    /\ UNCHANGED <<loadVars, schedVars, cleanVars, guardVars, scoreVars, apiVars, ttsVars, pdfVars, markVars, breakVars>>

\* flock(LOCK_EX) raises: the with statement closes the file
FlockFail(w) ==
    /\ pc[w] = "flock"
    /\ pc' = [pc EXCEPT ![w] = "except"]
    /\ failedAt' = [failedAt EXCEPT ![w] = "flock"]
    /\ UNCHANGED <<file, lock, entry, buf, written, returned, nwrites, rpc, rseen, rres, raised>>
    /\ UNCHANGED <<loadVars, schedVars, cleanVars, guardVars, scoreVars, apiVars, ttsVars, pdfVars, markVars, breakVars>>

\* f.write raises: nothing is buffered, the finally clause is next
WriteFail(w) ==
    /\ pc[w] = "write"
    /\ pc' = [pc EXCEPT ![w] = "unlock"]
    /\ failedAt' = [failedAt EXCEPT ![w] = "write"]
    /\ UNCHANGED <<file, lock, entry, buf, written, returned, nwrites, rpc, rseen, rres, raised>>
    /\ UNCHANGED <<loadVars, schedVars, cleanVars, guardVars, scoreVars, apiVars, ttsVars, pdfVars, markVars, breakVars>>

\* most bytes of a line that reach the file before its flush fails
MaxPartial == 1

\* f.flush raises, before the first byte or after a part of the line has
\* reached the file: the finally clause is next
FlushFail(w) ==
    /\ pc[w] = "flush"
    /\ Len(EntryLine(entry[w])) - Len(buf[w]) <= MaxPartial
    /\ pc' = [pc EXCEPT ![w] = "unlock"]
    /\ failedAt' = [failedAt EXCEPT ![w] = "flush"]
    /\ UNCHANGED <<file, lock, entry, buf, written, returned, nwrites, rpc, rseen, rres, raised>>
    /\ UNCHANGED <<loadVars, schedVars, cleanVars, guardVars, scoreVars, apiVars, ttsVars, pdfVars, markVars, breakVars>>

\* an except clause that goes on to "return entry"
Swallowed(r, e) == r \cup {e}

\* the entries returned so far, after the except clause has printed the
\* error and raised it again
AfterExcept(r, e) == r

\* the file is closed, the except clause prints the error and re-raises it
Except(w) ==
    /\ pc[w] = "except"
    /\ buf' = [buf EXCEPT ![w] = <<>>]
    /\ returned' = AfterExcept(returned, entry[w])
    /\ raised' = Append(raised, [w |-> w, at |-> failedAt[w]])
    /\ failedAt' = [failedAt EXCEPT ![w] = "none"]
    /\ pc' = [pc EXCEPT ![w] = "idle"]
    /\ UNCHANGED <<file, lock, entry, written, nwrites, rpc, rseen, rres>>
    /\ UNCHANGED <<loadVars, schedVars, cleanVars, guardVars, scoreVars, apiVars, ttsVars, pdfVars, markVars, breakVars>>

\* writers whose steps may fail
FailNext ==
    \/ \E w \in Writers : Open(w)
    \/ \E w \in Writers : Flock(w)
    \/ \E w \in Writers : Write(w)
    \/ \E w \in Writers : Flush(w)
    \/ \E w \in Writers : Unlock(w)
    \/ \E w \in Writers : Return(w)
    \/ \E w \in Writers : OpenFail(w)
    \/ \E w \in Writers : FlockFail(w)
    \/ \E w \in Writers : WriteFail(w)
    \/ \E w \in Writers : FlushFail(w)
    \/ \E w \in Writers : Except(w)

(***************************************************************************)
(* Guardrails (demo_logger.py)                                             *)
(***************************************************************************)
\* a JSON number, in thousandths
Num(v) == IF v.t = "int" THEN v.n * 1000 ELSE v.n

IsNumber(v) == v.t \in {"int", "float"}

\* the table; a bound counts thousandths
GUARDRAILS ==
    << [id |-> "short_sentences", name |-> <<"Short Sentences">>,
        key |-> <<"avg_sentence_len_words">>, op |-> "<=", bound |-> 15000],
       [id |-> "no_long_sentences", name |-> <<"No Long Sentences">>,
        key |-> <<"pct_sentences_gt20">>, op |-> "<=", bound |-> 10000],
       [id |-> "readable", name |-> <<"Readable (ARI)">>,
        key |-> <<"ari_score">>, op |-> "<=", bound |-> 8000],
       [id |-> "preserves_meaning", name |-> <<"Preserves Meaning">>,
        key |-> <<"meaning_cosine">>, op |-> ">=", bound |-> 700] >>

\* a comparison that leaves out the bound itself
HoldsStrict(op, x, bound) == IF op = "<=" THEN x < bound ELSE x > bound

\* the comparison of a check's lambda
Holds(op, x, bound) == IF op = "<=" THEN x <= bound ELSE x >= bound

\* a check whose exception is reported like a threshold that is not met
CheckUnmarked(g, m) ==
    IF m.t # "dict" \/ ~HasKey(m, g.key) THEN "fail"
    ELSE IF ~IsNumber(Get(m, g.key)) THEN "fail"
    ELSE IF g.op = "<=" THEN (IF Num(Get(m, g.key)) <= g.bound THEN "pass" ELSE "fail")
    ELSE (IF Num(Get(m, g.key)) >= g.bound THEN "pass" ELSE "fail")

\* guardrail["check"](metrics): "pass", "fail", or "error" when the lambda raises
\* (KeyError on a missing key, TypeError on a value that is no number)
Check(g, m) ==
    IF m.t # "dict" \/ ~HasKey(m, g.key) THEN "error"
    ELSE IF ~IsNumber(Get(m, g.key)) THEN "error"
    ELSE IF Holds(g.op, Num(Get(m, g.key)), g.bound) THEN "pass"
    ELSE "fail"

\* the loop of evaluate_guardrails from table row i on
RECURSIVE EvaluateFrom(_, _, _, _)
EvaluateFrom(m, i, passed, failed) ==
    IF i > Len(GUARDRAILS) THEN [passed |-> passed, total |-> Len(GUARDRAILS), failed |-> failed]
    ELSE LET g == GUARDRAILS[i]
             c == Check(g, m)
         IN  IF c = "pass" THEN EvaluateFrom(m, i + 1, passed + 1, failed)
             ELSE IF c = "fail" THEN EvaluateFrom(m, i + 1, passed, Append(failed, g.name))
             ELSE EvaluateFrom(m, i + 1, passed, Append(failed, g.name \o <<" (error)">>))

\* evaluate_guardrails(metrics): (passed_count, total_count, failed names)
EvaluateGuardrails(m) == EvaluateFrom(m, 1, 0, <<>>)

(***************************************************************************)
(* demo_logger.load_all_logs and compute_aggregate_stats                   *)
(***************************************************************************)
\* what a caller passes as log_file: the path of a file, or (as run_report
\* and the breakdowns do) a list of entries
PathArg(bytes) == [kind |-> "path", exists |-> TRUE, bytes |-> bytes, list |-> <<>>]

MissingPath == [kind |-> "path", exists |-> FALSE, bytes |-> <<>>, list |-> <<>>]

ListArg(logs) == [kind |-> "list", exists |-> FALSE, bytes |-> <<>>, list |-> logs]

\* the loop of demo_logger.load_all_logs: json.loads is not guarded
RECURSIVE DemoLines(_, _)
\* logs.append(json.loads(line)), r being what json.loads did
DemoAppend(r, rest, acc) ==
    IF r.ok THEN DemoLines(rest, Append(acc, r.v)) ELSE Raised("JSONDecodeError")

DemoLines(lines, acc) ==
    IF lines = <<>> THEN Returned(acc)
    ELSE IF Strip(Head(lines)) = <<>> THEN DemoLines(Tail(lines), acc)
    ELSE DemoAppend(JsonLoads(Head(lines)), Tail(lines), acc)

\* reading the open file, text being its decoded bytes
DemoRead(text) ==
    IF ~text.ok THEN Raised("UnicodeDecodeError") ELSE DemoLines(SplitLines(text.s), <<>>)

\* demo_logger.load_all_logs(log_file); a list has no method exists()
DemoLoadAllLogs(arg) ==
    IF arg.kind = "list" THEN Raised("AttributeError")
    ELSE IF ~arg.exists THEN Returned(<<>>)
    ELSE DemoRead(Utf8Decode(arg.bytes))

\* a / b cut off after the integer part
RoundDown(a, b) == a \div b

\* round(a / b) to the nearest integer, ties to even (a >= 0, b > 0)
RoundHalfEven(a, b) ==
    LET q == a \div b
        r == a % b
    IN  IF 2 * r < b THEN q
        ELSE IF 2 * r > b THEN q + 1
        ELSE IF q % 2 = 0 THEN q ELSE q + 1

RECURSIVE Sum(_)
Sum(ns) == IF ns = <<>> THEN 0 ELSE Head(ns) + Sum(Tail(ns))

HasMetrics(log) == HasKey(log, <<"metrics">>)

\* m.get(key) is an int or a float
HasNumber(m, k) == HasKey(m, k) /\ IsNumber(Get(m, k))

\* avg_metrics: the keys of the first metric record, each averaged over the
\* records where it is a number, rounded to 2 decimals
RECURSIVE AvgMetrics(_, _, _)
AvgMetrics(keys, ms, acc) ==
    IF keys = <<>> THEN acc
    ELSE LET k  == Head(keys)
             vs == [i \in 1..Len(ms) |-> IF HasNumber(ms[i], k) THEN Num(Get(ms[i], k)) ELSE 0]
             n  == Cardinality({i \in 1..Len(ms) : HasNumber(ms[i], k)})
         IN  IF n = 0 THEN AvgMetrics(Tail(keys), ms, acc)
             ELSE AvgMetrics(Tail(keys), ms,
                     PutKey(acc, <<"avg_">> \o k, JFloat(10 * RoundHalfEven(Sum(vs), 10 * n))))

\* log.get(key, default)
GetOr(log, k, default) == IF HasKey(log, k) THEN Get(log, k) ELSE default

\* failure_counts: how often each name occurs, keys in order of first occurrence
RECURSIVE FailureCounts(_, _)
FailureCounts(names, acc) ==
    IF names = <<>> THEN acc
    ELSE LET k == Head(names).s
             c == IF \E x \in 1..Len(acc) : acc[x].k = k
                  THEN (CHOOSE x \in 1..Len(acc) : acc[x].k = k)
                  ELSE 0
         IN  FailureCounts(Tail(names),
                 PutKey(acc, k, JInt(IF c = 0 THEN 1 ELSE acc[c].v.n + 1)))

EmptyReport ==
    JDict(<< KV(<<"total_entries">>, JInt(0)),
             KV(<<"avg_metrics">>, JDict(<<>>)),
             KV(<<"guardrails_summary">>, JDict(<<>>)) >>)

\* the body of compute_aggregate_stats once the entries are loaded
AggregateOf(logs) ==
    LET ms     == LET with == SelectSeq(logs, HasMetrics)
                  IN  [i \in 1..Len(with) |-> Get(with[i], <<"metrics">>)]
        passed == Sum([i \in 1..Len(logs) |-> GetOr(logs[i], <<"guardrails_passed">>, JInt(0)).n])
        total  == Sum([i \in 1..Len(logs) |-> GetOr(logs[i], <<"guardrails_total">>, JInt(0)).n])
        failed == Concat([i \in 1..Len(logs) |->
                             GetOr(logs[i], <<"guardrails_failed">>, JList(<<>>)).xs])
    IN  JDict(<< KV(<<"total_entries">>, JInt(Len(logs))),
                 KV(<<"avg_metrics">>,
                    JDict(IF ms = <<>> THEN <<>>
                          ELSE AvgMetrics([i \in 1..Len(ms[1].xs) |-> ms[1].xs[i].k], ms, <<>>))),
                 KV(<<"guardrails_summary">>,
                    JDict(<< KV(<<"total_passed">>, JInt(passed)),
                             KV(<<"total_checks">>, JInt(total)),
                             KV(<<"pass_rate">>,
                                IF total > 0
                                THEN JFloat(100 * RoundHalfEven(passed * 1000, total))
                                ELSE JInt(0)),
                             KV(<<"failure_counts">>, JDict(FailureCounts(failed, <<>>))) >>)) >>)

\* an entry compute_aggregate_stats cannot handle: one that is no dict, or
\* whose metrics, counts or failed list have another type than the logger writes
Unusable(log) ==
    \/ log.t # "dict"
    \/ /\ log.t = "dict"
       /\ \/ HasKey(log, <<"metrics">>) /\ Get(log, <<"metrics">>).t # "dict"
          \/ GetOr(log, <<"guardrails_passed">>, JInt(0)).t # "int"
          \/ GetOr(log, <<"guardrails_total">>, JInt(0)).t # "int"
          \/ GetOr(log, <<"guardrails_failed">>, JList(<<>>)).t # "list"

\* compute_aggregate_stats after its first statement, loaded being what
\* load_all_logs(log_file) did
StatsOf(loaded) ==
    IF loaded.raised THEN loaded
    ELSE IF loaded.val = <<>> THEN Returned(EmptyReport)
    ELSE IF \E i \in 1..Len(loaded.val) : Unusable(loaded.val[i]) THEN Raised("TypeError")
    ELSE Returned(AggregateOf(loaded.val))

\* demo_logger.compute_aggregate_stats(log_file)
ComputeAggregateStats(arg) == StatsOf(DemoLoadAllLogs(arg))

\* the second statement of run_report: what load_all_logs(log_file) gave is
\* handed to compute_aggregate_stats as a list
RunReportStats(loaded) ==
    IF loaded.raised THEN loaded ELSE ComputeAggregateStats(ListArg(loaded.val))

(***************************************************************************)
(* Log entries of the demo (demo_logger.create_log_entry)                  *)
(***************************************************************************)
MetricRecord(a, p, r, c) ==
    JDict(<< KV(<<"avg_sentence_len_words">>, a),
             KV(<<"pct_sentences_gt20">>, p),
             KV(<<"ari_score">>, r),
             KV(<<"meaning_cosine">>, c) >>)

\* create_log_entry, given what compute_metrics returned for the two texts
CreateLogEntry(a, now, m) ==
    LET g == EvaluateGuardrails(m)
    IN  JDict(<< KV(<<"timestamp">>, JStr(now)),
                 KV(<<"source_text">>, JStr(a.source_text)),
                 KV(<<"output_text">>, JStr(a.output_text)),
                 KV(<<"model">>, JStr(a.model)),
                 KV(<<"template">>, JStr(a.template)),
                 KV(<<"language">>, JStr(a.language)),
                 KV(<<"metrics">>, m),
                 KV(<<"guardrails_passed">>, JInt(g.passed)),
                 KV(<<"guardrails_total">>, JInt(g.total)),
                 KV(<<"guardrails_failed">>,
                    JList([i \in 1..Len(g.failed) |-> JStr(g.failed[i])])) >>)

\* the line log_simplification appends for an entry
DemoLine(e) == JsonDumps(e) \o <<"\n">>

(***************************************************************************)
(* Loading and aggregating a log file                                      *)
(***************************************************************************)
MaxLines == 3

\* two simplifications the demo has logged, with the metrics compute_metrics
\* gives for them where scikit-learn is not installed
DemoEntries ==
    { CreateLogEntry([source_text |-> <<"Ein", " ", "Satz", ".">>, output_text |-> <<"Satz", ".">>,
                      model |-> <<"llama">>, template |-> <<"system_prompt_de.txt">>,
                      language |-> <<"de">>],
                     <<"t1">>,
                     MetricRecord(JFloat(1000), JFloat(0), JInt(0), JFloat(0))),
      CreateLogEntry([source_text |-> <<"Das", " ", "Gericht", ".">>, output_text |-> <<"Gericht", ".">>,
                      model |-> <<"gpt">>, template |-> <<"system_prompt_en.txt">>,
                      language |-> <<"en">>],
                     <<"t2">>,
                     MetricRecord(JFloat(1000), JFloat(0), JFloat(12040), JFloat(0))) }

\* a line of which a writer that died got only the first half into the file
Truncated(line) == SubSeq(line, 1, Len(line) \div 2) \o <<"\n">>

\* the lines a log file is made of: entry lines, a truncated one, a blank
\* one and one of blanks only
CandidateLines ==
    {DemoLine(e) : e \in DemoEntries}
        \cup {Truncated(DemoLine(e)) : e \in {CHOOSE d \in DemoEntries : TRUE}}
        \cup {<<"\n">>, <<" ", "\n">>}

LogFiles ==
    {PathArg(Utf8Encode(Concat(ls))) :
        ls \in UNION {[1..n -> CandidateLines] : n \in 0..MaxLines}}

IsPending(r) == r.exc = "pending"

\* run_logger.load_all_logs(log_file)
RunLoadAllLogs(arg) == IF ~arg.exists THEN Returned(<<>>) ELSE LoadAllLogs(arg.bytes)

RunLoad ==
    /\ IsPending(runLoaded)
    /\ runLoaded' = RunLoadAllLogs(content)
    /\ UNCHANGED <<content, demoLoaded, statsPath, statsList>>
    /\ UNCHANGED <<logVars, schedVars, cleanVars, guardVars, scoreVars, apiVars, failVars, ttsVars, pdfVars, markVars, breakVars>>

DemoLoad ==
    /\ IsPending(demoLoaded)
    /\ demoLoaded' = DemoLoadAllLogs(content)
    /\ UNCHANGED <<content, runLoaded, statsPath, statsList>>
    /\ UNCHANGED <<logVars, schedVars, cleanVars, guardVars, scoreVars, apiVars, failVars, ttsVars, pdfVars, markVars, breakVars>>

\* compute_aggregate_stats(log_file) with the path of the file
StatsFromPath ==
    /\ IsPending(statsPath)
    /\ statsPath' = ComputeAggregateStats(content)
    /\ UNCHANGED <<content, runLoaded, demoLoaded, statsList>>
    /\ UNCHANGED <<logVars, schedVars, cleanVars, guardVars, scoreVars, apiVars, failVars, ttsVars, pdfVars, markVars, breakVars>>

\* the first two statements of run_report
StatsFromList ==
    /\ IsPending(statsList)
    /\ statsList' = RunReportStats(DemoLoadAllLogs(content))
    /\ UNCHANGED <<content, runLoaded, demoLoaded, statsPath>>
    /\ UNCHANGED <<logVars, schedVars, cleanVars, guardVars, scoreVars, apiVars, failVars, ttsVars, pdfVars, markVars, breakVars>>

(***************************************************************************)
(* Reports (metrics_reporter.py)                                           *)
(***************************************************************************)
\* the entries of logs whose field key (default "unknown") is group
GroupOf(logs, key, group) ==
    LET InGroup(log) == GetOr(log, key, JStr(<<"unknown">>)) = group
    IN  SelectSeq(logs, InGroup)

\* the first of a sequence of calls that raised, if one did
FirstRaised(calls) ==
    IF \E i \in 1..Len(calls) : calls[i].raised
    THEN calls[CHOOSE i \in 1..Len(calls) :
                  calls[i].raised /\ \A j \in 1..(i - 1) : ~calls[j].raised]
    ELSE Returned(<<"breakdown">>)

\* the breakdowns by model and by language: compute_aggregate_stats is called
\* with the list of each group's entries; the first call that raises ends them
Breakdowns(logs) ==
    FirstRaised([i \in 1..(2 * Len(logs)) |->
                    LET key == IF i <= Len(logs) THEN <<"model">> ELSE <<"language">>
                        log == logs[IF i <= Len(logs) THEN i ELSE i - Len(logs)]
                    IN  ComputeAggregateStats(
                            ListArg(GroupOf(logs, key, GetOr(log, key, JStr(<<"unknown">>)))))])

\* the values of key (default "unknown") in logs, in order of first occurrence:
\* the keys of the dict groups
GroupsOf(logs, key) ==
    LET Group(i)   == GetOr(logs[i], key, JStr(<<"unknown">>))
        IsFirst(i) == \A j \in 1..(i - 1) : Group(j) # Group(i)
        firsts     == SelectSeq([i \in 1..Len(logs) |-> i], IsFirst)
    IN  [n \in 1..Len(firsts) |-> Group(firsts[n])]

\* breakdown[group], group_stats being what compute_aggregate_stats did
BreakdownRow(group, group_logs, group_stats) ==
    IF group_stats.raised THEN group_stats
    ELSE Returned([group |-> group,
                   count |-> Len(group_logs),
                   pass_rate |-> GetOr(GetOr(group_stats.val, <<"guardrails_summary">>, JDict(<<>>)),
                                       <<"pass_rate">>, JInt(0)),
                   avg_metrics |-> GetOr(group_stats.val, <<"avg_metrics">>, JDict(<<>>))])

\* the rows of the breakdown, or the exception of the first group that raised
RowsOf(rows) ==
    IF \E n \in 1..Len(rows) : rows[n].raised
    THEN FirstRaised(rows)
    ELSE Returned([n \in 1..Len(rows) |-> rows[n].val])

\* _compute_breakdown(logs, key): compute_aggregate_stats is called with the
\* list of each group's entries
ComputeBreakdown(logs, key) ==
    RowsOf([n \in 1..Len(GroupsOf(logs, key)) |->
               BreakdownRow(GroupsOf(logs, key)[n],
                            GroupOf(logs, key, GroupsOf(logs, key)[n]),
                            ComputeAggregateStats(
                                ListArg(GroupOf(logs, key, GroupsOf(logs, key)[n]))))])

\* the entries are loaded and handed to _compute_breakdown
Breakdown ==
    /\ IsPending(breakdown)
    /\ ~IsPending(demoLoaded)
    /\ ~demoLoaded.raised
    /\ breakdown' = ComputeBreakdown(demoLoaded.val, breakKey)
    /\ UNCHANGED breakKey
    /\ UNCHANGED <<logVars, loadVars, schedVars, cleanVars, guardVars, scoreVars, apiVars, failVars, ttsVars, pdfVars, markVars>>

LoadNext == RunLoad \/ DemoLoad \/ StatsFromPath \/ StatsFromList \/ Breakdown

Separator == "===="

\* the text report once the breakdowns b are made
TextWith(b, title) ==
    IF b.raised THEN b
    ELSE Returned(<<Separator, title, Separator, "Total Entries", "AVERAGES",
                    "GUARDRAILS", "BREAKDOWN", Separator>>)

\* generate_text_report(stats, logs, include_breakdown=True, title=...)
GenerateTextReport(stats, logs, title) ==
    IF Get(stats, <<"total_entries">>) = JInt(0)
    THEN Returned(<<Separator, title, Separator, "No log entries found.", Separator>>)
    ELSE TextWith(Breakdowns(logs), title)

\* the JSON report once the breakdowns b are made
JsonWith(b) ==
    IF b.raised THEN b
    ELSE Returned(<<"{", "report_timestamp", "total_entries", "avg_metrics",
                    "guardrails_summary", "breakdown", "}">>)

\* generate_json_report(stats, logs), dumped
GenerateJsonReport(stats, logs) == JsonWith(Breakdowns(logs))

\* how run_report ends: it raises, or it returns the statistics after it has
\* written output to output_file (when one is given); logs is what it loaded
ReportRaised(exc) ==
    [raised |-> TRUE, exc |-> exc, stats |-> JNull, logs |-> <<>>, output |-> <<>>]

ReportDone(stats, logs, output) ==
    [raised |-> FALSE, exc |-> "", stats |-> stats, logs |-> logs, output |-> output]

\* run_report from the output on, report being what generating it did
ReportOutput(report, stats, logs) ==
    IF report.raised THEN ReportRaised(report.exc) ELSE ReportDone(stats, logs, report.val)

\* run_report after compute_aggregate_stats(logs), stats being what it did
ReportWith(stats, logs, output_json) ==
    IF stats.raised THEN ReportRaised(stats.exc)
    ELSE ReportOutput(IF output_json THEN GenerateJsonReport(stats.val, logs)
                      ELSE GenerateTextReport(stats.val, logs, "DEMO METRICS OVERVIEW"),
                      stats.val, logs)

\* run_report after load_all_logs(log_file), loaded being what it did
ReportOn(loaded, output_json) == ReportWith(RunReportStats(loaded), loaded.val, output_json)

\* run_report(log_file, output_file, output_json, include_breakdown=True)
RunReport(arg, output_json) == ReportOn(DemoLoadAllLogs(arg), output_json)

(***************************************************************************)
(* The scheduler (run_scheduled_metrics.run_scheduled_report)              *)
(***************************************************************************)
MaxIterations == 3

\* minutes one sleep between two reports lasts
SleepTicks == 2

\* the log files the scheduler reports on
SchedLogs ==
    LET e == CHOOSE d \in DemoEntries : TRUE
    IN  { MissingPath,
          PathArg(<<>>),
          PathArg(Utf8Encode(DemoLine(e))),
          PathArg(Utf8Encode(DemoLine(e) \o Truncated(DemoLine(e)))) }

\* SIGINT or SIGTERM arrives: signal_handler clears the flag
Signal ==
    /\ spc # "stopped"
    /\ running
    /\ running' = FALSE
    /\ UNCHANGED <<spc, mode, iteration, sleepLeft, overview, reportFiles, failures>>
    /\ UNCHANGED <<logVars, loadVars, cleanVars, guardVars, scoreVars, apiVars, failVars, ttsVars, pdfVars, markVars, breakVars>>

\* a loop that never looks at the flag
Forever(flag) == TRUE

\* the condition of "while _running"
WhileRunning(flag) == flag

\* the test of "while _running" and the increment of iteration
LoopTest ==
    /\ spc = "loop"
    /\ IF WhileRunning(running)
       THEN /\ iteration < MaxIterations
            /\ iteration' = iteration + 1
            /\ spc' = "report"
       ELSE /\ spc' = "stopped"
            /\ UNCHANGED iteration
    /\ UNCHANGED <<running, mode, sleepLeft, overview, reportFiles, failures>>
    /\ UNCHANGED <<logVars, loadVars, cleanVars, guardVars, scoreVars, apiVars, failVars, ttsVars, pdfVars, markVars, breakVars>>

\* the overview block of a run: append_to_overview_file writes the header and
\* the text report in one open-append-close
Block(run, report) == [run |-> run, header |-> "48-HOUR METRICS REPORT", report |-> report]

\* the end of the try block, over being what generating the overview report did
AppendOverview(over) ==
    IF over.raised
    THEN /\ failures' = Append(failures, [run |-> iteration, exc |-> over.exc])
         /\ UNCHANGED overview
    ELSE /\ overview' = Append(overview, Block(iteration, over.val))
         /\ UNCHANGED failures

\* the try block after run_report, r being what run_report did
AfterRunReport(r) ==
    IF r.raised
    THEN /\ failures' = Append(failures, [run |-> iteration, exc |-> r.exc])
         /\ UNCHANGED <<overview, reportFiles>>
    ELSE /\ reportFiles' = IF mode.console_only THEN reportFiles
                           ELSE Append(reportFiles, [run |-> iteration, output |-> r.output])
         /\ IF mode.console_only \/ mode.json_format
            THEN UNCHANGED <<overview, failures>>
            ELSE AppendOverview(GenerateTextReport(r.stats, r.logs,
                                                   "48-HOUR METRICS REPORT (Run #)"))

\* a try block without handler: the exception leaves run_scheduled_report
Escapes(failed) == IF failed THEN "stopped" ELSE "after"

\* where the scheduler is after the try block: "except Exception" has caught
\* what the report raised, so the statement after the try is next either way
AfterTry(failed) == "after"

\* the try block: run_report, then the append to the overview file; an
\* exception anywhere in it is printed and the loop goes on.  Nothing writes
\* the log file meanwhile, so the scheduler's own load_all_logs gives the
\* entries run_report has loaded.
Report ==
    /\ spc = "report"
    /\ AfterRunReport(RunReport(content, mode.json_format))
    /\ spc' = AfterTry(Len(failures') > Len(failures))
    /\ UNCHANGED <<running, mode, iteration, sleepLeft>>
    /\ UNCHANGED <<logVars, loadVars, cleanVars, guardVars, scoreVars, apiVars, failVars, ttsVars, pdfVars, markVars, breakVars>>

\* after the try block: leave in run-once mode, else start the sleep
AfterReport ==
    /\ spc = "after"
    /\ IF mode.run_once
       THEN spc' = "stopped" /\ UNCHANGED sleepLeft
       ELSE spc' = "sleep" /\ sleepLeft' = SleepTicks
    /\ UNCHANGED <<running, mode, iteration, overview, reportFiles, failures>>
    /\ UNCHANGED <<logVars, loadVars, cleanVars, guardVars, scoreVars, apiVars, failVars, ttsVars, pdfVars, markVars, breakVars>>

\* the sleep loop: one minute at a time while the flag is set
Sleep ==
    /\ spc = "sleep"
    /\ IF running /\ sleepLeft > 0
       THEN sleepLeft' = sleepLeft - 1 /\ UNCHANGED spc
       ELSE spc' = "loop" /\ UNCHANGED sleepLeft
    /\ UNCHANGED <<running, mode, iteration, overview, reportFiles, failures>>
    /\ UNCHANGED <<logVars, loadVars, cleanVars, guardVars, scoreVars, apiVars, failVars, ttsVars, pdfVars, markVars, breakVars>>

\* the step Report takes, told by the scheduler's position alone: it is
\* enabled whenever a report is being generated, and ends the try block
ReportEnds == spc = "report" /\ spc' = "after"

SchedNext == Signal \/ LoopTest \/ Report \/ AfterReport \/ Sleep

(***************************************************************************)
(* PDF text cleanup (pdf_extractor.clean_extracted_text, the same function *)
(* in pdf_utils.py)                                                        *)
(***************************************************************************)
\* the characters \w matches, of those the texts here are made of
WordChars == {"a", "b", "U+00E4"}

\* the subsequence of s at the positions i with keep[i]
RECURSIVE PickFrom(_, _, _)
PickFrom(s, keep, i) ==
    IF i > Len(s) THEN <<>>
    ELSE (IF keep[i] THEN <<s[i]>> ELSE <<>>) \o PickFrom(s, keep, i + 1)

Pick(s, keep) == PickFrom(s, keep, 1)

\* re.sub(r'(\w)-\n(\w)', r'\1\2', text): matches are found left to right
\* and do not overlap
RECURSIVE Dehyphenate(_, _)
Dehyphenate(s, i) ==
    IF i > Len(s) THEN <<>>
    ELSE IF /\ i + 3 <= Len(s)
            /\ s[i] \in WordChars
            /\ s[i + 1] = "-"
            /\ s[i + 2] = "\n"
            /\ s[i + 3] \in WordChars
         THEN <<s[i], s[i + 3]>> \o Dehyphenate(s, i + 4)
    ELSE <<s[i]>> \o Dehyphenate(s, i + 1)

\* re.sub(r'(?<!\n)\n(?!\n)', ' ', text)
JoinSingleNewlines(s) ==
    [i \in 1..Len(s) |->
        IF /\ s[i] = "\n"
           /\ (i = 1 \/ s[i - 1] # "\n")
           /\ (i = Len(s) \/ s[i + 1] # "\n")
        THEN " " ELSE s[i]]

\* re.sub(r'\n{3,}', '\n\n', text): of a run of newlines the first two stay
CollapseNewlines(s) ==
    Pick(s, [i \in 1..Len(s) |-> ~(i >= 3 /\ s[i] = "\n" /\ s[i - 1] = "\n" /\ s[i - 2] = "\n")])

\* re.sub(r'[ \t]+', ' ', text)
CollapseSpaces(s) ==
    LET Blank(c) == c \in {" ", "\t"}
        one == Pick(s, [i \in 1..Len(s) |-> ~(Blank(s[i]) /\ i > 1 /\ Blank(s[i - 1]))])
    IN  [i \in 1..Len(one) |-> IF Blank(one[i]) THEN " " ELSE one[i]]

\* re.sub(r' +\n', '\n', text): the spaces right before a newline go
DropSpacesBeforeNewline(s) ==
    Pick(s, [i \in 1..Len(s) |->
                ~(/\ s[i] = " "
                  /\ \E j \in (i + 1)..Len(s) :
                        s[j] = "\n" /\ \A k \in i..(j - 1) : s[k] = " ")])

\* re.sub(r'\n +', '\n', text): the spaces right after a newline go
DropSpacesAfterNewline(s) ==
    Pick(s, [i \in 1..Len(s) |->
                ~(/\ s[i] = " "
                  /\ \E j \in 1..(i - 1) :
                        s[j] = "\n" /\ \A k \in (j + 1)..i : s[k] = " ")])

\* clean_extracted_text(text)
CleanExtractedText(text) ==
    IF text = <<>> THEN <<>>
    ELSE Strip(DropSpacesAfterNewline(DropSpacesBeforeNewline(
             CollapseSpaces(CollapseNewlines(JoinSingleNewlines(Dehyphenate(text, 1)))))))

\* longest extracted text
MaxLen == 7

TextChars == {"a", "-", "\n", " "}

\* the text goes through the cleanup
Clean ==
    /\ cpc = "raw"
    /\ cleaned' = CleanExtractedText(rawText)
    /\ cpc' = "cleaned"
    /\ UNCHANGED <<rawText, recleaned>>
    /\ UNCHANGED <<logVars, loadVars, schedVars, guardVars, scoreVars, apiVars, failVars, ttsVars, pdfVars, markVars, breakVars>>

\* the cleaned text goes through the cleanup again
Reclean ==
    /\ cpc = "cleaned"
    /\ recleaned' = CleanExtractedText(cleaned)
    /\ cpc' = "recleaned"
    /\ UNCHANGED <<rawText, cleaned>>
    /\ UNCHANGED <<logVars, loadVars, schedVars, guardVars, scoreVars, apiVars, failVars, ttsVars, pdfVars, markVars, breakVars>>

CleanNext == Clean \/ Reclean

(***************************************************************************)
(* Evaluating guardrails                                                   *)
(***************************************************************************)
\* metric values around the thresholds, as compute_metrics rounds them and
\* as a caller may pass them (an int where a float is usual)
AvgValues == {JFloat(10000), JFloat(15000), JFloat(15100), JFloat(20000), JInt(15)}

PctValues == {JFloat(0), JFloat(10000), JFloat(10100)}

AriValues == {JFloat(5000), JFloat(8000), JFloat(8010)}

CosValues == {JFloat(900), JFloat(700), JFloat(699)}

\* a field the record does not have
Absent == JVal("absent", 0, <<>>, <<>>)

\* what a field holds when it is no number: nothing, a string, or null
Unusual == {Absent, JStr(<<"n/a">>), JNull}

\* a record of the four metric fields, without those that are Absent
PartialRecord(a, p, r, c) ==
    LET Present(kv) == kv.v # Absent
    IN  JDict(SelectSeq(MetricRecord(a, p, r, c).xs, Present))

NoVerdict == [passed |-> 0, total |-> 0, failed |-> <<>>]

Evaluate ==
    /\ gpc = "given"
    /\ verdict' = EvaluateGuardrails(metrics)
    /\ gpc' = "evaluated"
    /\ UNCHANGED metrics
    /\ UNCHANGED <<logVars, loadVars, schedVars, cleanVars, scoreVars, apiVars, failVars, ttsVars, pdfVars, markVars, breakVars>>

\* the thresholds of the reporter; a threshold counts thousandths
GUARDRAIL_THRESHOLDS ==
    << [name |-> <<"avg_sentence_len_words">>, threshold |-> 15000, operator |-> "le"],
       [name |-> <<"pct_sentences_gt20">>, threshold |-> 10000, operator |-> "le"],
       [name |-> <<"ari_score">>, threshold |-> 8000, operator |-> "le"],
       [name |-> <<"meaning_cosine">>, threshold |-> 700, operator |-> "ge"] >>

\* a comparison that takes the threshold itself for a violation
ViolatesAtThreshold(operator, x, threshold) ==
    IF operator = "le" THEN x >= threshold
    ELSE IF operator = "ge" THEN x <= threshold
    ELSE FALSE

\* the comparison of check_guardrail_violation
Violates(operator, x, threshold) ==
    IF operator = "le" THEN x > threshold
    ELSE IF operator = "ge" THEN x < threshold
    ELSE FALSE

\* check_guardrail_violation(metric_name, value), value in thousandths
CheckGuardrailViolation(metric_name, x) ==
    IF \A i \in 1..Len(GUARDRAIL_THRESHOLDS) : GUARDRAIL_THRESHOLDS[i].name # metric_name
    THEN FALSE
    ELSE LET row == GUARDRAIL_THRESHOLDS[CHOOSE i \in 1..Len(GUARDRAIL_THRESHOLDS) :
                                            GUARDRAIL_THRESHOLDS[i].name = metric_name]
         IN  Violates(row.operator, x, row.threshold)

\* the names metric_display gives to the averages, in its order
MetricDisplay ==
    << <<"avg_sentence_len_words">>, <<"pct_sentences_gt20">>,
       <<"ari_score">>, <<"meaning_cosine">> >>

\* what the loop over metric_display does with the value of display_name in
\* m: a key that is missing is skipped, the comparison with a value that is
\* no number raises TypeError, a number gets the warning sign or the tick
MarkOf(m, display_name) ==
    IF ~HasKey(m, display_name) THEN "skipped"
    ELSE IF ~IsNumber(Get(m, display_name)) THEN "TypeError"
    ELSE IF CheckGuardrailViolation(display_name, Num(Get(m, display_name))) THEN "violation"
    ELSE "pass"

\* the averages section of generate_text_report on the values of the record
Annotate ==
    /\ mpc = "given"
    /\ reportMarks' = [i \in 1..Len(MetricDisplay) |-> MarkOf(metrics, MetricDisplay[i])]
    /\ mpc' = "done"
    /\ UNCHANGED guardVars
    /\ UNCHANGED <<logVars, loadVars, schedVars, cleanVars, scoreVars, apiVars, failVars, ttsVars, pdfVars, breakVars>>

GuardNext == Evaluate \/ Annotate

(***************************************************************************)
(* Aggregating entries of any shape                                        *)
(***************************************************************************)
\* most entries in a log that is aggregated
MaxEntries == 3

\* an entry whose guardrail fields come from evaluate_guardrails(m)
EvaluatedEntry(m) ==
    LET g == EvaluateGuardrails(m)
    IN  JDict(<< KV(<<"metrics">>, m),
                 KV(<<"guardrails_passed">>, JInt(g.passed)),
                 KV(<<"guardrails_total">>, JInt(g.total)),
                 KV(<<"guardrails_failed">>,
                    JList([i \in 1..Len(g.failed) |-> JStr(g.failed[i])])) >>)

\* the entries a log is made of: evaluated metric records, complete or with
\* a field missing and one that is no number, and an entry that has neither
\* metrics nor guardrail fields
AggEntries ==
    { EvaluatedEntry(MetricRecord(JFloat(1000), JFloat(0), JInt(0), JFloat(0))),
      EvaluatedEntry(MetricRecord(JFloat(1000), JFloat(0), JFloat(12040), JFloat(0))),
      EvaluatedEntry(MetricRecord(JFloat(15000), JFloat(10000), JFloat(8000), JFloat(800))),
      EvaluatedEntry(PartialRecord(JFloat(20000), JFloat(0), Absent, JStr(<<"n/a">>))),
      JDict(<< KV(<<"model">>, JStr(<<"gpt">>)) >>) }

\* the log files of up to MaxEntries such entries, one per line
AggFiles ==
    {PathArg(Utf8Encode(Concat([i \in 1..Len(es) |-> DemoLine(es[i])]))) :
        es \in UNION {[1..n -> AggEntries] : n \in 0..MaxEntries}}

AggNext == StatsFromPath

(***************************************************************************)
(* Scoring a text (demo_logger.py, app.py).  A text is a sequence of       *)
(* tokens: a maximal run of letters is one token, every other character    *)
(* is a token of its own.                                                  *)
(***************************************************************************)
\* the words the texts are made of, with their numbers of letters
WordLen ==
    [w \in {"Dr", "usw", "e", "g", "DOT", "Smith", "went", "home", "He", "was",
            "tired", "Wir", "essen", "Brot", "Obst", "Verantwortung"} |->
        CASE w \in {"e", "g"} -> 1
          [] w \in {"Dr", "He"} -> 2
          [] w \in {"usw", "DOT", "was", "Wir"} -> 3
          [] w \in {"went", "home", "Brot", "Obst"} -> 4
          [] w \in {"Smith", "tired", "essen"} -> 5
          [] OTHER -> 13]

\* tokens that match [A-Za-z...]+
LetterTokens == DOMAIN WordLen

\* tokens that match \w+
WordTokens == LetterTokens \cup {"_"}

\* the alternatives of the two patterns of split_sentences
Abbreviations ==
    {<<"Mr">>, <<"Mrs">>, <<"Ms">>, <<"Dr">>, <<"Prof">>, <<"Jr">>, <<"Sr">>,
     <<"vs">>, <<"etc">>, <<"e", ".", "g">>, <<"i", ".", "e">>}

GermanAbbreviations == {<<"z", ".", "B">>, <<"d", ".", "h">>, <<"usw">>, <<"ggfs">>}

\* \b(a)\.\s matches at token i of s
MatchesAt(a, s, i) ==
    /\ i = 1 \/ s[i - 1] \notin WordTokens
    /\ i + Len(a) + 1 <= Len(s)
    /\ SubSeq(s, i, i + Len(a) - 1) = a
    /\ s[i + Len(a)] = "."
    /\ s[i + Len(a) + 1] \in Whitespace

\* re.sub(r'\b(abbrs)\.\s', r'\1_DOT ', s), from token i on
RECURSIVE SubAbbrev(_, _, _)
SubAbbrev(abbrs, s, i) ==
    IF i > Len(s) THEN <<>>
    ELSE IF \E a \in abbrs : MatchesAt(a, s, i)
    THEN LET a == CHOOSE x \in abbrs : MatchesAt(x, s, i)
         IN  a \o <<"_", "DOT", " ">> \o SubAbbrev(abbrs, s, i + Len(a) + 2)
    ELSE <<s[i]>> \o SubAbbrev(abbrs, s, i + 1)

\* no abbreviation is protected
ProtectNone(abbrs, s) == s

\* one re.sub of split_sentences
Protect(abbrs, s) == SubAbbrev(abbrs, s, 1)

SentenceEnd == {".", "!", "?"}

\* the last token of the run of tokens of cls that starts at i (i - 1 if none)
RECURSIVE RunEnd(_, _, _)
RunEnd(cls, s, i) ==
    IF i <= Len(s) /\ s[i] \in cls THEN RunEnd(cls, s, i + 1) ELSE i - 1

\* re.split(r'[.!?]+\s+', s) from token i on, cur being the piece so far
RECURSIVE SplitPieces(_, _, _)
SplitPieces(s, i, cur) ==
    IF i > Len(s) THEN <<cur>>
    ELSE IF s[i] \notin SentenceEnd THEN SplitPieces(s, i + 1, Append(cur, s[i]))
    ELSE LET j == RunEnd(SentenceEnd, s, i)
             k == RunEnd(Whitespace, s, j + 1)
         IN  IF k > j THEN <<cur>> \o SplitPieces(s, k + 1, <<>>)
             ELSE SplitPieces(s, j + 1, cur \o SubSeq(s, i, j))

\* [s.strip() for s in pieces if s.strip()]
RECURSIVE StripNonEmpty(_)
StripNonEmpty(pieces) ==
    IF pieces = <<>> THEN <<>>
    ELSE IF Strip(Head(pieces)) = <<>> THEN StripNonEmpty(Tail(pieces))
    ELSE <<Strip(Head(pieces))>> \o StripNonEmpty(Tail(pieces))

\* split_sentences and split_sentences_for_scoring: the same three steps
SplitSentences(text) ==
    StripNonEmpty(SplitPieces(
        Strip(Protect(GermanAbbreviations, Protect(Abbreviations, text))), 1, <<>>))

IsLetterToken(t) == t \in LetterTokens

\* get_words and get_words_for_scoring
GetWords(text) == SelectSeq(text, IsLetterToken)

\* round(a / b, digits) as a float, in thousandths (a >= 0, b > 0, digits <= 3)
RoundTo(a, b, digits) ==
    CASE digits = 1 -> 100 * RoundHalfEven(10 * a, b)
      [] digits = 2 -> 10 * RoundHalfEven(100 * a, b)
      [] OTHER -> RoundHalfEven(1000 * a, b)

\* compute_ari_score, given the numbers of letters, words and sentences:
\* 4.71 * (c / w) + 0.5 * (w / s) - 21.43 is a / (200 * w * s)
AriOf(c, w, s) ==
    LET a == 942 * c * s + 100 * w * w - 4286 * w * s
    IN  IF a <= 0 THEN JInt(0) ELSE JFloat(RoundTo(a, 200 * w * s, 2))

ComputeAriScore(text) ==
    LET words == GetWords(text)
        n == Len(SplitSentences(text))
    IN  IF n = 0 \/ words = <<>> THEN JFloat(0)
        ELSE AriOf(Sum([i \in 1..Len(words) |-> WordLen[words[i]]]), Len(words), n)

\* sent_lengths of compute_metrics and compute_simple_scores
SentLengths(sents) == [i \in 1..Len(sents) |-> Len(GetWords(sents[i]))]

\* the number of elements of ns greater than limit
CountOver(ns, limit) == Cardinality({i \in 1..Len(ns) : ns[i] > limit})

ZeroMetrics == MetricRecord(JFloat(0), JFloat(0), JFloat(0), JFloat(0))

\* compute_metrics, given its sentences and what compute_meaning_cosine returns
MetricsOf(output_text, sents, cos) ==
    IF sents = <<>> \/ GetWords(output_text) = <<>> THEN ZeroMetrics
    ELSE MetricRecord(
            JFloat(RoundTo(Sum(SentLengths(sents)), Len(sents), 1)),
            JFloat(RoundTo(100 * CountOver(SentLengths(sents), 20), Len(sents), 1)),
            ComputeAriScore(output_text),
            JFloat(cos))

ComputeMetrics(output_text, cos) == MetricsOf(output_text, SplitSentences(output_text), cos)

JBool(b) == JVal("bool", IF b THEN 1 ELSE 0, <<>>, <<>>)

NoContent == JDict(<< KV(<<"error">>, JStr(<<"No content to score">>)) >>)

\* the record compute_simple_scores builds from sent_lengths and word_lengths
ScoresOf(sl, wl) ==
    LET s == Len(sl)
        w == Len(wl)
        long == CountOver(sl, 20)
        lw == CountOver(wl, 6)
        c1 == Sum(sl) <= 15 * s
        c2 == 100 * long <= 10 * s
        c3 == w * w + 100 * lw * s <= 40 * s * w
    IN  JDict(<< KV(<<"sentences">>, JInt(s)),
                 KV(<<"words">>, JInt(w)),
                 KV(<<"avg_sentence_len">>, JFloat(RoundTo(Sum(sl), s, 1))),
                 KV(<<"pct_long_sentences">>, JFloat(RoundTo(100 * long, s, 1))),
                 KV(<<"avg_word_len">>, JFloat(RoundTo(Sum(wl), w, 1))),
                 KV(<<"lix">>, JFloat(RoundTo(w * w + 100 * lw * s, s * w, 1))),
                 KV(<<"checks_passed">>,
                    JInt(Cardinality({i \in 1..3 : <<c1, c2, c3>>[i]}))),
                 KV(<<"checks_total">>, JInt(3)),
                 KV(<<"check_details">>,
                    JDict(<< KV(<<"sentence_length">>, JBool(c1)),
                             KV(<<"long_sentences">>, JBool(c2)),
                             KV(<<"lix_score">>, JBool(c3)) >>)) >>)

\* compute_simple_scores, given its sentences and words
SimpleScoresOf(sents, words) ==
    IF sents = <<>> \/ words = <<>> THEN NoContent
    ELSE ScoresOf(SentLengths(sents), [i \in 1..Len(words) |-> WordLen[words[i]]])

ComputeSimpleScores(text) == SimpleScoresOf(SplitSentences(text), GetWords(text))

\* most tokens of an enumerated text
MaxTokens == 5

\* the tokens the enumerated texts are made of
TextTokens == {"Dr", "e", "g", ".", "!", " ", "\n"}

\* no two letter tokens are adjacent: a run of letters is one token
Tokenised(s) == \A i \in 1..Len(s) - 1 : ~(s[i] \in LetterTokens /\ s[i + 1] \in LetterTokens)

\* longer texts that are scored
SampleTexts ==
    { <<"Dr", ".", " ", "Smith", " ", "went", " ", "home", ".", " ",
        "He", " ", "was", " ", "tired", ".">>,
      <<"Wir", " ", "essen", " ", "Brot", ",", " ", "Obst", " ", "usw", ".", " ",
        "Wir", " ", "essen", "!">>,
      <<"Verantwortung", "!", "?", "\n", "Verantwortung", " ", "Smith", ".">> }

\* the output texts that are scored
OutputTexts ==
    SampleTexts \cup
    {s \in UNION {[1..n -> TextTokens] : n \in 0..MaxTokens} : Tokenised(s)}

\* what compute_meaning_cosine returns for a source and the output text, in
\* thousandths: 0.0 without scikit-learn or on an error, else the similarity
CosineValues == {0, 425}

\* split_sentences(outText)
Split ==
    /\ IsPending(sentences)
    /\ sentences' = Returned(SplitSentences(outText))
    /\ UNCHANGED <<outText, cosine, metricRec, scores>>
    /\ UNCHANGED <<logVars, loadVars, schedVars, cleanVars, guardVars, apiVars, failVars, ttsVars, pdfVars, markVars, breakVars>>

\* compute_metrics(source, outText)
Metrics ==
    /\ IsPending(metricRec)
    /\ metricRec' = Returned(ComputeMetrics(outText, cosine))
    /\ UNCHANGED <<outText, cosine, sentences, scores>>
    /\ UNCHANGED <<logVars, loadVars, schedVars, cleanVars, guardVars, apiVars, failVars, ttsVars, pdfVars, markVars, breakVars>>

\* compute_simple_scores(outText)
Scores ==
    /\ IsPending(scores)
    /\ scores' = Returned(ComputeSimpleScores(outText))
    /\ UNCHANGED <<outText, cosine, sentences, metricRec>>
    /\ UNCHANGED <<logVars, loadVars, schedVars, cleanVars, guardVars, apiVars, failVars, ttsVars, pdfVars, markVars, breakVars>>

ScoreNext == Split \/ Metrics \/ Scores

(***************************************************************************)
(* The /v1/log-run endpoint (main.py)                                      *)
(***************************************************************************)
\* most requests to /v1/log-run
MaxRequests == 3

\* request bodies that pass the validation of LogRunRequest
LogRunRequests ==
    { [run_id |-> r, input_hash |-> <<"abc123">>, input_length |-> 150,
       target_lang |-> <<"de">>, level |-> <<"easy">>, model_used |-> <<"m1">>,
       output_length |-> 120, latency_ms |-> 250, chunk_count |-> 1,
       scores |-> None, warnings |-> JList(<<>>), user_feedback |-> None,
       timestamp |-> t] :
         r \in {<<"r1">>, <<"r2">>, <<"r3">>}, t \in {None, JStr(<<"t1">>)} }

\* the entries in the run log before the first request: none, or one that
\* write_log_entry wrote
LogsBefore == {<<>>} \cup {<<BuildEntry(a, now)>> : a \in LogCalls, now \in Clock}

LogRunResponse(logged, run_id) == [logged |-> logged, run_id |-> run_id]

\* log_run(req): the placeholder computes a timestamp and answers; it calls
\* nothing that writes
LogRun ==
    /\ Len(logResponses) < MaxRequests
    /\ \E req \in LogRunRequests, now \in Clock :
          LET timestamp == IF req.timestamp = None THEN JStr(now) ELSE req.timestamp
          IN  logResponses' = Append(logResponses, LogRunResponse(TRUE, req.run_id))
    /\ UNCHANGED <<batchTexts, llmCalls, batchResponse>>
    /\ UNCHANGED <<logVars, loadVars, schedVars, cleanVars, guardVars, scoreVars, failVars, ttsVars, pdfVars, markVars, breakVars>>

LogRunNext == LogRun

(***************************************************************************)
(* The /v1/simplify/batch endpoint (main.py).  A text is given by the      *)
(* number of its characters that remain after trimming (core) and the      *)
(* number of whitespace characters around them (pad).                      *)
(***************************************************************************)
\* most texts of a batch that is enumerated
MaxTexts == 3

\* max_length of BatchSimplifyRequest.texts and the limit simplify_batch tests
BatchLimit == 10

MinChars == 10

MaxChars == 5000

Text(core, pad) == [core |-> core, pad |-> pad]

\* len(text) and len(text.strip())
TextLen(text) == text.core + text.pad

StrippedLen(text) == text.core

BatchTextValues ==
    {Text(0, 0), Text(9, 0), Text(9, 5000), Text(10, 0), Text(4990, 10),
     Text(4990, 11), Text(5001, 0)}

\* what simplify_text_with_llm does for one text: it returns the content of
\* the answer (a string, or None when the answer has no content) or raises
LlmOutcomes ==
    { [raises |-> "", content |-> JStr(<<"simple">>)],
      [raises |-> "", content |-> None],
      [raises |-> "ValueError", content |-> None],
      [raises |-> "FileNotFoundError", content |-> None],
      [raises |-> "Exception", content |-> None] }

BatchItemResult(index, simplified_text, error) ==
    [index |-> index, simplified_text |-> simplified_text, error |-> error,
     warnings |-> <<>>]

\* the text is rejected before the LLM is called
TooShort(text) == TextLen(text) = 0 \/ StrippedLen(text) < MinChars

TooLong(text) == TextLen(text) > MaxChars

\* a result that does not say which text it belongs to
SameForAll(i, text, o) ==
    BatchItemResult(0, None, JStr(<<"Simplification failed">>))

\* one pass of the loop of simplify_batch: the result for text number i
\* (from 0), o being what the LLM call does if it is made
ItemResult(i, text, o) ==
    IF TooShort(text)
    THEN BatchItemResult(i, None, JStr(<<"Text too short to simplify (minimum 10 characters)">>))
    ELSE IF TooLong(text)
    THEN BatchItemResult(i, None,
            JStr(<<"Text too long (maximum 5000 characters per text in batch mode)">>))
    ELSE CASE o.raises = "" -> BatchItemResult(i, o.content, None)
           [] o.raises = "ValueError" ->
                BatchItemResult(i, None, JStr(<<"Validation error: ", "str(e)">>))
           [] o.raises = "FileNotFoundError" ->
                BatchItemResult(i, None, JStr(<<"Template error: ", "str(e)">>))
           [] OTHER -> BatchItemResult(i, None, JStr(<<"Simplification failed: ", "str(e)">>))

\* the calls of simplify_text_with_llm the loop makes, in order
NeedsLlm(c) == ~TooShort(c.text) /\ ~TooLong(c.text)

LlmCallsOf(texts, os) ==
    SelectSeq([i \in 1..Len(texts) |-> [index |-> i - 1, text |-> texts[i], outcome |-> os[i]]],
              NeedsLlm)

\* the response of simplify_batch for the results of the loop
BatchSimplifyResponse(results) ==
    LET successful_count ==
            Cardinality({i \in 1..Len(results) : results[i].simplified_text # None})
    IN  [results |-> results, batch_id |-> <<"batch_", "uuid4().hex[:8]">>,
         successful_count |-> successful_count,
         failed_count |-> Len(results) - successful_count]

\* simplify_batch(req), os[i] being what the LLM call for text i does
SimplifyBatchOf(texts, os) ==
    IF Len(texts) > BatchLimit THEN Raised("HTTPException 400")
    ELSE Returned(BatchSimplifyResponse(
            [i \in 1..Len(texts) |-> ItemResult(i - 1, texts[i], os[i])]))

SimplifyBatch ==
    /\ IsPending(batchResponse)
    /\ \E os \in [1..Len(batchTexts) -> LlmOutcomes] :
          \* no call is made for a rejected text: one outcome stands for all
          /\ \A i \in 1..Len(batchTexts) :
                TooShort(batchTexts[i]) \/ TooLong(batchTexts[i]) =>
                    os[i] = [raises |-> "", content |-> None]
          /\ llmCalls' = LlmCallsOf(batchTexts, os)
          /\ batchResponse' = SimplifyBatchOf(batchTexts, os)
    /\ UNCHANGED <<logResponses, batchTexts>>
    /\ UNCHANGED <<logVars, loadVars, schedVars, cleanVars, guardVars, scoreVars, failVars, ttsVars, pdfVars, markVars, breakVars>>

BatchNext == SimplifyBatch

(***************************************************************************)
(* Preparing a text for speech (tts_adapter.py); a text is a sequence of   *)
(* characters                                                              *)
(***************************************************************************)
Bullets == {"*", "-", "U+2022", "U+25CF", "U+25AA", "U+25BA", "U+25B8", "U+2023", "U+2043"}

Digits == {"0", "1", "2", "3", "4", "5", "6", "7", "8", "9"}

\* [a-zA-Z] and [A-Za-z...] as far as the texts have letters
AsciiLetters == {"a", "b", "A"}

TtsLetters == AsciiLetters \cup {"U+00E4", "U+00DF"}

\* ^ with re.MULTILINE matches before character i of s
LineStart(s, i) == i = 1 \/ s[i - 1] = "\n"

\* the length of the list marker of the given kind that starts at character
\* i of s, 0 if there is none: [\*\-...], \d+[\.\)] or [a-zA-Z][\.\)]
MarkerLen(kind, s, i) ==
    CASE kind = "bullet" -> IF s[i] \in Bullets THEN 1 ELSE 0
      [] kind = "number" ->
            IF /\ s[i] \in Digits
               /\ RunEnd(Digits, s, i) < Len(s)
               /\ s[RunEnd(Digits, s, i) + 1] \in {".", ")"}
            THEN RunEnd(Digits, s, i) - i + 2 ELSE 0
      [] OTHER ->
            IF s[i] \in AsciiLetters /\ i < Len(s) /\ s[i + 1] \in {".", ")"} THEN 2 ELSE 0

\* re.sub(r'^marker\s*', '', text, flags=re.MULTILINE), from character i on
RECURSIVE RemoveMarkers(_, _, _)
RemoveMarkers(kind, s, i) ==
    IF i > Len(s) THEN <<>>
    ELSE IF LineStart(s, i) /\ MarkerLen(kind, s, i) > 0
    THEN RemoveMarkers(kind, s, RunEnd(Whitespace, s, i + MarkerLen(kind, s, i)) + 1)
    ELSE <<s[i]>> \o RemoveMarkers(kind, s, i + 1)

\* re.sub(r'([marks])([A-Za-z...])', r'\1 \2', text), from character i on
RECURSIVE SpaceAfter(_, _, _)
SpaceAfter(marks, s, i) ==
    IF i > Len(s) THEN <<>>
    ELSE IF s[i] \in marks /\ i < Len(s) /\ s[i + 1] \in TtsLetters
    THEN <<s[i], " ", s[i + 1]>> \o SpaceAfter(marks, s, i + 2)
    ELSE <<s[i]>> \o SpaceAfter(marks, s, i + 1)

\* the position of the first '>' of s at or after character i, 0 if none
RECURSIVE NextClose(_, _)
NextClose(s, i) ==
    IF i > Len(s) THEN 0 ELSE IF s[i] = ">" THEN i ELSE NextClose(s, i + 1)

\* re.sub(r'<[^>]+>', '', text), from character i on
RECURSIVE RemoveTags(_, _)
RemoveTags(s, i) ==
    IF i > Len(s) THEN <<>>
    ELSE IF s[i] = "<" /\ NextClose(s, i + 1) > i + 1
    THEN RemoveTags(s, NextClose(s, i + 1) + 1)
    ELSE <<s[i]>> \o RemoveTags(s, i + 1)

\* no tag is removed
KeepTags(s) == s

\* the tag removal of preprocess_text_for_tts
StripTags(s) == RemoveTags(s, 1)

\* re.sub(r' +', ' ', text)
OneSpace(s) == Pick(s, [i \in 1..Len(s) |-> ~(s[i] = " " /\ i > 1 /\ s[i - 1] = " ")])

\* text.split('\n'), from character i on, cur being the line so far
RECURSIVE SplitNewlines(_, _, _)
SplitNewlines(s, i, cur) ==
    IF i > Len(s) THEN <<cur>>
    ELSE IF s[i] = "\n" THEN <<cur>> \o SplitNewlines(s, i + 1, <<>>)
    ELSE SplitNewlines(s, i + 1, Append(cur, s[i]))

\* '\n'.join(line.strip() for line in text.split('\n'))
StripLines(s) ==
    Join(<<"\n">>, [k \in 1..Len(SplitNewlines(s, 1, <<>>)) |->
                        Strip(SplitNewlines(s, 1, <<>>)[k])])

\* the text after the list markers are removed and the spaces inserted
Spaced(text) ==
    SpaceAfter({",", ":", ";"},
        SpaceAfter({".", "!", "?"},
            RemoveMarkers("letter",
                RemoveMarkers("number", RemoveMarkers("bullet", text, 1), 1), 1), 1), 1)

\* preprocess_text_for_tts(text)
PreprocessTextForTts(text) ==
    Strip(StripLines(CollapseNewlines(OneSpace(StripTags(Spaced(text))))))

\* longest text given to preprocess_text_for_tts
MaxTtsLen == 5

TtsChars == {"a", ".", ",", "<", ">", " ", "\n", "-", "1"}

\* preprocess_text_for_tts(ttsText)
Preprocess ==
    /\ ttspc = "given"
    /\ spoken' = PreprocessTextForTts(ttsText)
    /\ ttspc' = "done"
    /\ UNCHANGED ttsText
    /\ UNCHANGED <<logVars, loadVars, schedVars, cleanVars, guardVars, scoreVars, apiVars, failVars, pdfVars, markVars, breakVars>>

TtsNext == Preprocess

(***************************************************************************)
(* PDF extraction of the API (pdf_extractor.extract_pdf_text)              *)
(***************************************************************************)
\* pages of an uploaded document at most
MaxPages == 2

\* what PyMuPDF makes of the uploaded bytes: a document, a password-protected
\* document, or no PDF at all
PdfKinds == {"pdf", "encrypted", "corrupted"}

\* what get_text("blocks") gives for a page: a text block, a block of white
\* space only, no block, only image blocks or blocks in the margins, or an
\* error of the parser
PageKinds == {"text", "blank", "empty", "image", "error"}

\* the stripped text of a page's blocks, joined
PageText(kind) == IF kind = "text" THEN <<"a", "-", "\n", "b">> ELSE <<>>

\* what the except clauses raise for e: FileDataError and every other
\* exception become a ValueError, a ValueError is raised again
ToValueError(e) == "ValueError"

\* both except clauses: the temporary file is removed if it exists, and a
\* ValueError goes to the caller
ExceptClause(e) ==
    /\ tmpExists' = FALSE
    /\ pdfResult' = Raised(ToValueError(e))
    /\ pdfpc' = "done"

\* the with block: NamedTemporaryFile(delete=False) creates the file and
\* tmp.write fills it; an error of the write leaves the with block and the
\* function, the try block not yet entered
WriteTemp ==
    /\ pdfpc = "start"
    /\ tmpExists' = TRUE
    /\ \E ok \in BOOLEAN :
         IF ok
         THEN pdfpc' = "open" /\ UNCHANGED pdfResult
         ELSE pdfpc' = "done" /\ pdfResult' = Raised("OSError")
    /\ UNCHANGED <<pdfDoc, docOpen, pageNo, allText, pdfWarnings>>
    /\ UNCHANGED <<logVars, loadVars, schedVars, cleanVars, guardVars, scoreVars, apiVars, failVars, ttsVars, markVars, breakVars>>

\* pymupdf.open and the test of is_encrypted
OpenPdf ==
    /\ pdfpc = "open"
    /\ IF pdfDoc.kind = "corrupted"
       THEN ExceptClause("FileDataError") /\ UNCHANGED docOpen
       ELSE IF pdfDoc.kind = "encrypted"
       THEN ExceptClause("ValueError") /\ docOpen' = FALSE
       ELSE pdfpc' = "page" /\ docOpen' = TRUE /\ UNCHANGED <<tmpExists, pdfResult>>
    /\ UNCHANGED <<pdfDoc, pageNo, allText, pdfWarnings>>
    /\ UNCHANGED <<logVars, loadVars, schedVars, cleanVars, guardVars, scoreVars, apiVars, failVars, ttsVars, markVars, breakVars>>

\* one round of the loop over the pages
Page ==
    /\ pdfpc = "page"
    /\ pageNo < Len(pdfDoc.pages)
    /\ LET kind == pdfDoc.pages[pageNo + 1]
       IN  IF kind = "error"
           THEN ExceptClause("RuntimeError") /\ UNCHANGED <<pageNo, allText, pdfWarnings>>
           ELSE /\ pageNo' = pageNo + 1
                /\ allText' = IF kind \in {"text", "blank"}
                              THEN Append(allText, PageText(kind)) ELSE allText
                /\ pdfWarnings' =
                     IF kind = "empty"
                     THEN Append(pdfWarnings, <<"appears_empty", pageNo + 1>>)
                     ELSE IF kind = "image"
                     THEN Append(pdfWarnings, <<"no_extractable_text", pageNo + 1>>)
                     ELSE pdfWarnings
                /\ UNCHANGED <<pdfpc, tmpExists, pdfResult>>
    /\ UNCHANGED <<pdfDoc, docOpen>>
    /\ UNCHANGED <<logVars, loadVars, schedVars, cleanVars, guardVars, scoreVars, apiVars, failVars, ttsVars, markVars, breakVars>>

\* after the loop: the document is closed, the temporary file removed, the
\* pages are joined and cleaned.  The texts here stay far below 5000 words,
\* so no warning about a long document is added.
Finish ==
    /\ pdfpc = "page"
    /\ pageNo = Len(pdfDoc.pages)
    /\ docOpen' = FALSE
    /\ IF allText = <<>>
       THEN ExceptClause("ValueError")
       ELSE IF Strip(CleanExtractedText(Join(<<"\n", "\n">>, allText))) = <<>>
       THEN ExceptClause("ValueError")
       ELSE /\ tmpExists' = FALSE
            /\ pdfResult' = Returned([text |-> CleanExtractedText(Join(<<"\n", "\n">>, allText)),
                                      page_count |-> Len(pdfDoc.pages),
                                      warnings |-> pdfWarnings])
            /\ pdfpc' = "done"
    /\ UNCHANGED <<pdfDoc, pageNo, allText, pdfWarnings>>
    /\ UNCHANGED <<logVars, loadVars, schedVars, cleanVars, guardVars, scoreVars, apiVars, failVars, ttsVars, markVars, breakVars>>

PdfNext == WriteTemp \/ OpenPdf \/ Page \/ Finish

(***************************************************************************)
(* Specifications                                                          *)
(***************************************************************************)
\* the run log is empty and no call is under way; the other components rest
InitLog ==
    \* the run log: empty, no caller
    /\ file = <<>>
    /\ lock = "free"
    /\ pc = [w \in Writers |-> "idle"]
    /\ entry = [w \in Writers |-> None]
    /\ buf = [w \in Writers |-> <<>>]
    /\ written = <<>>
    /\ returned = {}
    /\ nwrites = 0
    /\ rpc = "idle"
    /\ rseen = <<>>
    /\ rres = Returned(<<>>)
    \* no file to load
    /\ content = MissingPath
    /\ runLoaded = Pending
    /\ demoLoaded = Pending
    /\ statsPath = Pending
    /\ statsList = Pending
    \* the scheduler is not started
    /\ running = FALSE
    /\ spc = "stopped"
    /\ mode = [console_only |-> TRUE, run_once |-> TRUE, json_format |-> FALSE]
    /\ iteration = 0
    /\ sleepLeft = 0
    /\ overview = <<>>
    /\ reportFiles = <<>>
    /\ failures = <<>>
    \* no text to clean
    /\ rawText = <<>>
    /\ cleaned = <<>>
    /\ recleaned = <<>>
    /\ cpc = "recleaned"
    \* no metric record to evaluate
    /\ metrics = JNull
    /\ verdict = NoVerdict
    /\ gpc = "evaluated"
    \* no text to score
    /\ outText = <<>>
    /\ cosine = 0
    /\ sentences = Returned(<<>>)
    /\ metricRec = Returned(JNull)
    /\ scores = Returned(JNull)
    \* no request to the API
    /\ logResponses = <<>>
    /\ batchTexts = <<>>
    /\ llmCalls = <<>>
    /\ batchResponse = Returned(JNull)
    \* no call of write_log_entry has failed
    /\ failedAt = [w \in Writers |-> "none"]
    /\ raised = <<>>
    \* no text to prepare for speech
    /\ ttsText = <<>>
    /\ spoken = <<>>
    /\ ttspc = "done"
    \* no PDF to extract
    /\ pdfDoc = [kind |-> "pdf", pages |-> <<>>]
    /\ pdfpc = "done"
    /\ tmpExists = FALSE
    /\ docOpen = FALSE
    /\ pageNo = 0
    /\ allText = <<>>
    /\ pdfWarnings = <<>>
    /\ pdfResult = Pending
    \* no value to annotate
    /\ reportMarks = <<>>
    /\ mpc = "done"
    \* no breakdown to compute
    /\ breakKey = <<"model">>
    /\ breakdown = Returned(<<>>)

\* the run log is empty and no call is in progress; steps of write_log_entry
\* may fail; the other components rest
InitFail ==
    \* the run log: empty, no caller
    /\ file = <<>>
    /\ lock = "free"
    /\ pc = [w \in Writers |-> "idle"]
    /\ entry = [w \in Writers |-> None]
    /\ buf = [w \in Writers |-> <<>>]
    /\ written = <<>>
    /\ returned = {}
    /\ nwrites = 0
    /\ rpc = "idle"
    /\ rseen = <<>>
    /\ rres = Returned(<<>>)
    \* no file to load
    /\ content = MissingPath
    /\ runLoaded = Pending
    /\ demoLoaded = Pending
    /\ statsPath = Pending
    /\ statsList = Pending
    \* the scheduler is not started
    /\ running = FALSE
    /\ spc = "stopped"
    /\ mode = [console_only |-> TRUE, run_once |-> TRUE, json_format |-> FALSE]
    /\ iteration = 0
    /\ sleepLeft = 0
    /\ overview = <<>>
    /\ reportFiles = <<>>
    /\ failures = <<>>
    \* no text to clean
    /\ rawText = <<>>
    /\ cleaned = <<>>
    /\ recleaned = <<>>
    /\ cpc = "recleaned"
    \* no metric record to evaluate
    /\ metrics = JNull
    /\ verdict = NoVerdict
    /\ gpc = "evaluated"
    \* no text to score
    /\ outText = <<>>
    /\ cosine = 0
    /\ sentences = Returned(<<>>)
    /\ metricRec = Returned(JNull)
    /\ scores = Returned(JNull)
    \* no request to the API
    /\ logResponses = <<>>
    /\ batchTexts = <<>>
    /\ llmCalls = <<>>
    /\ batchResponse = Returned(JNull)
    \* no call of write_log_entry has failed
    /\ failedAt = [w \in Writers |-> "none"]
    /\ raised = <<>>
    \* no text to prepare for speech
    /\ ttsText = <<>>
    /\ spoken = <<>>
    /\ ttspc = "done"
    \* no PDF to extract
    /\ pdfDoc = [kind |-> "pdf", pages |-> <<>>]
    /\ pdfpc = "done"
    /\ tmpExists = FALSE
    /\ docOpen = FALSE
    /\ pageNo = 0
    /\ allText = <<>>
    /\ pdfWarnings = <<>>
    /\ pdfResult = Pending
    \* no value to annotate
    /\ reportMarks = <<>>
    /\ mpc = "done"
    \* no breakdown to compute
    /\ breakKey = <<"model">>
    /\ breakdown = Returned(<<>>)

\* a log file of up to MaxLines lines is on disk; the other components rest
InitLoad ==
    \* the run log: empty, no caller
    /\ file = <<>>
    /\ lock = "free"
    /\ pc = [w \in Writers |-> "idle"]
    /\ entry = [w \in Writers |-> None]
    /\ buf = [w \in Writers |-> <<>>]
    /\ written = <<>>
    /\ returned = {}
    /\ nwrites = 0
    /\ rpc = "idle"
    /\ rseen = <<>>
    /\ rres = Returned(<<>>)
    \* the file to load, nothing computed yet
    /\ content \in LogFiles \cup {MissingPath}
    /\ runLoaded = Pending
    /\ demoLoaded = Pending
    /\ statsPath = Pending
    /\ statsList = Pending
    \* the scheduler is not started
    /\ running = FALSE
    /\ spc = "stopped"
    /\ mode = [console_only |-> TRUE, run_once |-> TRUE, json_format |-> FALSE]
    /\ iteration = 0
    /\ sleepLeft = 0
    /\ overview = <<>>
    /\ reportFiles = <<>>
    /\ failures = <<>>
    \* no text to clean
    /\ rawText = <<>>
    /\ cleaned = <<>>
    /\ recleaned = <<>>
    /\ cpc = "recleaned"
    \* no metric record to evaluate
    /\ metrics = JNull
    /\ verdict = NoVerdict
    /\ gpc = "evaluated"
    \* no text to score
    /\ outText = <<>>
    /\ cosine = 0
    /\ sentences = Returned(<<>>)
    /\ metricRec = Returned(JNull)
    /\ scores = Returned(JNull)
    \* no request to the API
    /\ logResponses = <<>>
    /\ batchTexts = <<>>
    /\ llmCalls = <<>>
    /\ batchResponse = Returned(JNull)
    \* no call of write_log_entry has failed
    /\ failedAt = [w \in Writers |-> "none"]
    /\ raised = <<>>
    \* no text to prepare for speech
    /\ ttsText = <<>>
    /\ spoken = <<>>
    /\ ttspc = "done"
    \* no PDF to extract
    /\ pdfDoc = [kind |-> "pdf", pages |-> <<>>]
    /\ pdfpc = "done"
    /\ tmpExists = FALSE
    /\ docOpen = FALSE
    /\ pageNo = 0
    /\ allText = <<>>
    /\ pdfWarnings = <<>>
    /\ pdfResult = Pending
    \* no value to annotate
    /\ reportMarks = <<>>
    /\ mpc = "done"
    \* the breakdown by model or by language is to be computed
    /\ breakKey \in {<<"model">>, <<"language">>}
    /\ breakdown = Pending

\* run_scheduled_report is called on a log file; the other components rest
InitSched ==
    \* the run log: empty, no caller
    /\ file = <<>>
    /\ lock = "free"
    /\ pc = [w \in Writers |-> "idle"]
    /\ entry = [w \in Writers |-> None]
    /\ buf = [w \in Writers |-> <<>>]
    /\ written = <<>>
    /\ returned = {}
    /\ nwrites = 0
    /\ rpc = "idle"
    /\ rseen = <<>>
    /\ rres = Returned(<<>>)
    \* the log file the reports are made of
    /\ content \in SchedLogs
    /\ runLoaded = Pending
    /\ demoLoaded = Pending
    /\ statsPath = Pending
    /\ statsList = Pending
    \* the scheduler at its loop
    /\ running = TRUE
    /\ spc = "loop"
    /\ mode \in [console_only : BOOLEAN, run_once : BOOLEAN, json_format : BOOLEAN]
    /\ iteration = 0
    /\ sleepLeft = 0
    /\ overview = <<>>
    /\ reportFiles = <<>>
    /\ failures = <<>>
    \* no text to clean
    /\ rawText = <<>>
    /\ cleaned = <<>>
    /\ recleaned = <<>>
    /\ cpc = "recleaned"
    \* no metric record to evaluate
    /\ metrics = JNull
    /\ verdict = NoVerdict
    /\ gpc = "evaluated"
    \* no text to score
    /\ outText = <<>>
    /\ cosine = 0
    /\ sentences = Returned(<<>>)
    /\ metricRec = Returned(JNull)
    /\ scores = Returned(JNull)
    \* no request to the API
    /\ logResponses = <<>>
    /\ batchTexts = <<>>
    /\ llmCalls = <<>>
    /\ batchResponse = Returned(JNull)
    \* no call of write_log_entry has failed
    /\ failedAt = [w \in Writers |-> "none"]
    /\ raised = <<>>
    \* no text to prepare for speech
    /\ ttsText = <<>>
    /\ spoken = <<>>
    /\ ttspc = "done"
    \* no PDF to extract
    /\ pdfDoc = [kind |-> "pdf", pages |-> <<>>]
    /\ pdfpc = "done"
    /\ tmpExists = FALSE
    /\ docOpen = FALSE
    /\ pageNo = 0
    /\ allText = <<>>
    /\ pdfWarnings = <<>>
    /\ pdfResult = Pending
    \* no value to annotate
    /\ reportMarks = <<>>
    /\ mpc = "done"
    \* no breakdown to compute
    /\ breakKey = <<"model">>
    /\ breakdown = Returned(<<>>)

\* a text of up to MaxLen characters has been extracted; the other components rest
InitClean ==
    \* the run log: empty, no caller
    /\ file = <<>>
    /\ lock = "free"
    /\ pc = [w \in Writers |-> "idle"]
    /\ entry = [w \in Writers |-> None]
    /\ buf = [w \in Writers |-> <<>>]
    /\ written = <<>>
    /\ returned = {}
    /\ nwrites = 0
    /\ rpc = "idle"
    /\ rseen = <<>>
    /\ rres = Returned(<<>>)
    \* no file to load
    /\ content = MissingPath
    /\ runLoaded = Pending
    /\ demoLoaded = Pending
    /\ statsPath = Pending
    /\ statsList = Pending
    \* the scheduler is not started
    /\ running = FALSE
    /\ spc = "stopped"
    /\ mode = [console_only |-> TRUE, run_once |-> TRUE, json_format |-> FALSE]
    /\ iteration = 0
    /\ sleepLeft = 0
    /\ overview = <<>>
    /\ reportFiles = <<>>
    /\ failures = <<>>
    \* the extracted text
    /\ rawText \in UNION {[1..n -> TextChars] : n \in 0..MaxLen}
    /\ cleaned = <<>>
    /\ recleaned = <<>>
    /\ cpc = "raw"
    \* no metric record to evaluate
    /\ metrics = JNull
    /\ verdict = NoVerdict
    /\ gpc = "evaluated"
    \* no text to score
    /\ outText = <<>>
    /\ cosine = 0
    /\ sentences = Returned(<<>>)
    /\ metricRec = Returned(JNull)
    /\ scores = Returned(JNull)
    \* no request to the API
    /\ logResponses = <<>>
    /\ batchTexts = <<>>
    /\ llmCalls = <<>>
    /\ batchResponse = Returned(JNull)
    \* no call of write_log_entry has failed
    /\ failedAt = [w \in Writers |-> "none"]
    /\ raised = <<>>
    \* no text to prepare for speech
    /\ ttsText = <<>>
    /\ spoken = <<>>
    /\ ttspc = "done"
    \* no PDF to extract
    /\ pdfDoc = [kind |-> "pdf", pages |-> <<>>]
    /\ pdfpc = "done"
    /\ tmpExists = FALSE
    /\ docOpen = FALSE
    /\ pageNo = 0
    /\ allText = <<>>
    /\ pdfWarnings = <<>>
    /\ pdfResult = Pending
    \* no value to annotate
    /\ reportMarks = <<>>
    /\ mpc = "done"
    \* no breakdown to compute
    /\ breakKey = <<"model">>
    /\ breakdown = Returned(<<>>)

\* a metric record is given; the other components rest
InitGuard ==
    \* the run log: empty, no caller
    /\ file = <<>>
    /\ lock = "free"
    /\ pc = [w \in Writers |-> "idle"]
    /\ entry = [w \in Writers |-> None]
    /\ buf = [w \in Writers |-> <<>>]
    /\ written = <<>>
    /\ returned = {}
    /\ nwrites = 0
    /\ rpc = "idle"
    /\ rseen = <<>>
    /\ rres = Returned(<<>>)
    \* no file to load
    /\ content = MissingPath
    /\ runLoaded = Pending
    /\ demoLoaded = Pending
    /\ statsPath = Pending
    /\ statsList = Pending
    \* the scheduler is not started
    /\ running = FALSE
    /\ spc = "stopped"
    /\ mode = [console_only |-> TRUE, run_once |-> TRUE, json_format |-> FALSE]
    /\ iteration = 0
    /\ sleepLeft = 0
    /\ overview = <<>>
    /\ reportFiles = <<>>
    /\ failures = <<>>
    \* no text to clean
    /\ rawText = <<>>
    /\ cleaned = <<>>
    /\ recleaned = <<>>
    /\ cpc = "recleaned"
    \* the metric record
    /\ metrics \in {PartialRecord(a, p, r, c) :
                       a \in AvgValues \cup Unusual, p \in PctValues \cup Unusual,
                       r \in AriValues \cup Unusual, c \in CosValues \cup Unusual}
    /\ verdict = NoVerdict
    /\ gpc = "given"
    \* no text to score
    /\ outText = <<>>
    /\ cosine = 0
    /\ sentences = Returned(<<>>)
    /\ metricRec = Returned(JNull)
    /\ scores = Returned(JNull)
    \* no request to the API
    /\ logResponses = <<>>
    /\ batchTexts = <<>>
    /\ llmCalls = <<>>
    /\ batchResponse = Returned(JNull)
    \* no call of write_log_entry has failed
    /\ failedAt = [w \in Writers |-> "none"]
    /\ raised = <<>>
    \* no text to prepare for speech
    /\ ttsText = <<>>
    /\ spoken = <<>>
    /\ ttspc = "done"
    \* no PDF to extract
    /\ pdfDoc = [kind |-> "pdf", pages |-> <<>>]
    /\ pdfpc = "done"
    /\ tmpExists = FALSE
    /\ docOpen = FALSE
    /\ pageNo = 0
    /\ allText = <<>>
    /\ pdfWarnings = <<>>
    /\ pdfResult = Pending
    \* the values of the record are to be annotated
    /\ reportMarks = <<>>
    /\ mpc = "given"
    \* no breakdown to compute
    /\ breakKey = <<"model">>
    /\ breakdown = Returned(<<>>)

\* a text of up to MaxTtsLen characters is given to preprocess_text_for_tts;
\* the other components rest
InitTts ==
    \* the run log: empty, no caller
    /\ file = <<>>
    /\ lock = "free"
    /\ pc = [w \in Writers |-> "idle"]
    /\ entry = [w \in Writers |-> None]
    /\ buf = [w \in Writers |-> <<>>]
    /\ written = <<>>
    /\ returned = {}
    /\ nwrites = 0
    /\ rpc = "idle"
    /\ rseen = <<>>
    /\ rres = Returned(<<>>)
    \* no file to load
    /\ content = MissingPath
    /\ runLoaded = Pending
    /\ demoLoaded = Pending
    /\ statsPath = Pending
    /\ statsList = Pending
    \* the scheduler is not started
    /\ running = FALSE
    /\ spc = "stopped"
    /\ mode = [console_only |-> TRUE, run_once |-> TRUE, json_format |-> FALSE]
    /\ iteration = 0
    /\ sleepLeft = 0
    /\ overview = <<>>
    /\ reportFiles = <<>>
    /\ failures = <<>>
    \* no text to clean
    /\ rawText = <<>>
    /\ cleaned = <<>>
    /\ recleaned = <<>>
    /\ cpc = "recleaned"
    \* no metric record to evaluate
    /\ metrics = JNull
    /\ verdict = NoVerdict
    /\ gpc = "evaluated"
    \* no text to score
    /\ outText = <<>>
    /\ cosine = 0
    /\ sentences = Returned(<<>>)
    /\ metricRec = Returned(JNull)
    /\ scores = Returned(JNull)
    \* no request to the API
    /\ logResponses = <<>>
    /\ batchTexts = <<>>
    /\ llmCalls = <<>>
    /\ batchResponse = Returned(JNull)
    \* no call of write_log_entry has failed
    /\ failedAt = [w \in Writers |-> "none"]
    /\ raised = <<>>
    \* the text to prepare for speech
    /\ ttsText \in UNION {[1..n -> TtsChars] : n \in 0..MaxTtsLen}
    /\ spoken = <<>>
    /\ ttspc = "given"
    \* no PDF to extract
    /\ pdfDoc = [kind |-> "pdf", pages |-> <<>>]
    /\ pdfpc = "done"
    /\ tmpExists = FALSE
    /\ docOpen = FALSE
    /\ pageNo = 0
    /\ allText = <<>>
    /\ pdfWarnings = <<>>
    /\ pdfResult = Pending
    \* no value to annotate
    /\ reportMarks = <<>>
    /\ mpc = "done"
    \* no breakdown to compute
    /\ breakKey = <<"model">>
    /\ breakdown = Returned(<<>>)

\* a document of up to MaxPages pages is given to extract_pdf_text; the other
\* components rest
InitPdf ==
    \* the run log: empty, no caller
    /\ file = <<>>
    /\ lock = "free"
    /\ pc = [w \in Writers |-> "idle"]
    /\ entry = [w \in Writers |-> None]
    /\ buf = [w \in Writers |-> <<>>]
    /\ written = <<>>
    /\ returned = {}
    /\ nwrites = 0
    /\ rpc = "idle"
    /\ rseen = <<>>
    /\ rres = Returned(<<>>)
    \* no file to load
    /\ content = MissingPath
    /\ runLoaded = Pending
    /\ demoLoaded = Pending
    /\ statsPath = Pending
    /\ statsList = Pending
    \* the scheduler is not started
    /\ running = FALSE
    /\ spc = "stopped"
    /\ mode = [console_only |-> TRUE, run_once |-> TRUE, json_format |-> FALSE]
    /\ iteration = 0
    /\ sleepLeft = 0
    /\ overview = <<>>
    /\ reportFiles = <<>>
    /\ failures = <<>>
    \* no text to clean
    /\ rawText = <<>>
    /\ cleaned = <<>>
    /\ recleaned = <<>>
    /\ cpc = "recleaned"
    \* no metric record to evaluate
    /\ metrics = JNull
    /\ verdict = NoVerdict
    /\ gpc = "evaluated"
    \* no text to score
    /\ outText = <<>>
    /\ cosine = 0
    /\ sentences = Returned(<<>>)
    /\ metricRec = Returned(JNull)
    /\ scores = Returned(JNull)
    \* no request to the API
    /\ logResponses = <<>>
    /\ batchTexts = <<>>
    /\ llmCalls = <<>>
    /\ batchResponse = Returned(JNull)
    \* no call of write_log_entry has failed
    /\ failedAt = [w \in Writers |-> "none"]
    /\ raised = <<>>
    \* no text to prepare for speech
    /\ ttsText = <<>>
    /\ spoken = <<>>
    /\ ttspc = "done"
    \* the uploaded document
    /\ pdfDoc \in [kind : PdfKinds, pages : UNION {[1..n -> PageKinds] : n \in 1..MaxPages}]
    /\ pdfpc = "start"
    /\ tmpExists = FALSE
    /\ docOpen = FALSE
    /\ pageNo = 0
    /\ allText = <<>>
    /\ pdfWarnings = <<>>
    /\ pdfResult = Pending
    \* no value to annotate
    /\ reportMarks = <<>>
    /\ mpc = "done"
    \* no breakdown to compute
    /\ breakKey = <<"model">>
    /\ breakdown = Returned(<<>>)

\* a log file of up to MaxEntries entries of any shape is on disk; the other
\* components rest
InitAgg ==
    \* the run log: empty, no caller
    /\ file = <<>>
    /\ lock = "free"
    /\ pc = [w \in Writers |-> "idle"]
    /\ entry = [w \in Writers |-> None]
    /\ buf = [w \in Writers |-> <<>>]
    /\ written = <<>>
    /\ returned = {}
    /\ nwrites = 0
    /\ rpc = "idle"
    /\ rseen = <<>>
    /\ rres = Returned(<<>>)
    \* the file to load, nothing computed yet
    /\ content \in AggFiles
    /\ runLoaded = Pending
    /\ demoLoaded = Pending
    /\ statsPath = Pending
    /\ statsList = Pending
    \* the scheduler is not started
    /\ running = FALSE
    /\ spc = "stopped"
    /\ mode = [console_only |-> TRUE, run_once |-> TRUE, json_format |-> FALSE]
    /\ iteration = 0
    /\ sleepLeft = 0
    /\ overview = <<>>
    /\ reportFiles = <<>>
    /\ failures = <<>>
    \* no text to clean
    /\ rawText = <<>>
    /\ cleaned = <<>>
    /\ recleaned = <<>>
    /\ cpc = "recleaned"
    \* no metric record to evaluate
    /\ metrics = JNull
    /\ verdict = NoVerdict
    /\ gpc = "evaluated"
    \* no text to score
    /\ outText = <<>>
    /\ cosine = 0
    /\ sentences = Returned(<<>>)
    /\ metricRec = Returned(JNull)
    /\ scores = Returned(JNull)
    \* no request to the API
    /\ logResponses = <<>>
    /\ batchTexts = <<>>
    /\ llmCalls = <<>>
    /\ batchResponse = Returned(JNull)
    \* no call of write_log_entry has failed
    /\ failedAt = [w \in Writers |-> "none"]
    /\ raised = <<>>
    \* no text to prepare for speech
    /\ ttsText = <<>>
    /\ spoken = <<>>
    /\ ttspc = "done"
    \* no PDF to extract
    /\ pdfDoc = [kind |-> "pdf", pages |-> <<>>]
    /\ pdfpc = "done"
    /\ tmpExists = FALSE
    /\ docOpen = FALSE
    /\ pageNo = 0
    /\ allText = <<>>
    /\ pdfWarnings = <<>>
    /\ pdfResult = Pending
    \* no value to annotate
    /\ reportMarks = <<>>
    /\ mpc = "done"
    \* no breakdown to compute
    /\ breakKey = <<"model">>
    /\ breakdown = Returned(<<>>)

\* an output text is given to the scoring functions; the other components rest
InitScore ==
    \* the run log: empty, no caller
    /\ file = <<>>
    /\ lock = "free"
    /\ pc = [w \in Writers |-> "idle"]
    /\ entry = [w \in Writers |-> None]
    /\ buf = [w \in Writers |-> <<>>]
    /\ written = <<>>
    /\ returned = {}
    /\ nwrites = 0
    /\ rpc = "idle"
    /\ rseen = <<>>
    /\ rres = Returned(<<>>)
    \* no file to load
    /\ content = MissingPath
    /\ runLoaded = Pending
    /\ demoLoaded = Pending
    /\ statsPath = Pending
    /\ statsList = Pending
    \* the scheduler is not started
    /\ running = FALSE
    /\ spc = "stopped"
    /\ mode = [console_only |-> TRUE, run_once |-> TRUE, json_format |-> FALSE]
    /\ iteration = 0
    /\ sleepLeft = 0
    /\ overview = <<>>
    /\ reportFiles = <<>>
    /\ failures = <<>>
    \* no text to clean
    /\ rawText = <<>>
    /\ cleaned = <<>>
    /\ recleaned = <<>>
    /\ cpc = "recleaned"
    \* no metric record to evaluate
    /\ metrics = JNull
    /\ verdict = NoVerdict
    /\ gpc = "evaluated"
    \* the text to score, nothing computed yet
    /\ outText \in OutputTexts
    /\ cosine \in CosineValues
    /\ sentences = Pending
    /\ metricRec = Pending
    /\ scores = Pending
    \* no request to the API
    /\ logResponses = <<>>
    /\ batchTexts = <<>>
    /\ llmCalls = <<>>
    /\ batchResponse = Returned(JNull)
    \* no call of write_log_entry has failed
    /\ failedAt = [w \in Writers |-> "none"]
    /\ raised = <<>>
    \* no text to prepare for speech
    /\ ttsText = <<>>
    /\ spoken = <<>>
    /\ ttspc = "done"
    \* no PDF to extract
    /\ pdfDoc = [kind |-> "pdf", pages |-> <<>>]
    /\ pdfpc = "done"
    /\ tmpExists = FALSE
    /\ docOpen = FALSE
    /\ pageNo = 0
    /\ allText = <<>>
    /\ pdfWarnings = <<>>
    /\ pdfResult = Pending
    \* no value to annotate
    /\ reportMarks = <<>>
    /\ mpc = "done"
    \* no breakdown to compute
    /\ breakKey = <<"model">>
    /\ breakdown = Returned(<<>>)

\* the run log holds what earlier calls wrote, no request has been made to
\* /v1/log-run; the other components rest
InitLogRun ==
    \* the run log as earlier calls of write_log_entry left it, no caller
    /\ written \in LogsBefore
    /\ file = Concat([i \in 1..Len(written) |-> EntryLine(written[i])])
    /\ lock = "free"
    /\ pc = [w \in Writers |-> "idle"]
    /\ entry = [w \in Writers |-> None]
    /\ buf = [w \in Writers |-> <<>>]
    /\ returned = {}
    /\ nwrites = 0
    /\ rpc = "idle"
    /\ rseen = <<>>
    /\ rres = Returned(<<>>)
    \* no file to load
    /\ content = MissingPath
    /\ runLoaded = Pending
    /\ demoLoaded = Pending
    /\ statsPath = Pending
    /\ statsList = Pending
    \* the scheduler is not started
    /\ running = FALSE
    /\ spc = "stopped"
    /\ mode = [console_only |-> TRUE, run_once |-> TRUE, json_format |-> FALSE]
    /\ iteration = 0
    /\ sleepLeft = 0
    /\ overview = <<>>
    /\ reportFiles = <<>>
    /\ failures = <<>>
    \* no text to clean
    /\ rawText = <<>>
    /\ cleaned = <<>>
    /\ recleaned = <<>>
    /\ cpc = "recleaned"
    \* no metric record to evaluate
    /\ metrics = JNull
    /\ verdict = NoVerdict
    /\ gpc = "evaluated"
    \* no text to score
    /\ outText = <<>>
    /\ cosine = 0
    /\ sentences = Returned(<<>>)
    /\ metricRec = Returned(JNull)
    /\ scores = Returned(JNull)
    \* no request to the API
    /\ logResponses = <<>>
    /\ batchTexts = <<>>
    /\ llmCalls = <<>>
    /\ batchResponse = Returned(JNull)
    \* no call of write_log_entry has failed
    /\ failedAt = [w \in Writers |-> "none"]
    /\ raised = <<>>
    \* no text to prepare for speech
    /\ ttsText = <<>>
    /\ spoken = <<>>
    /\ ttspc = "done"
    \* no PDF to extract
    /\ pdfDoc = [kind |-> "pdf", pages |-> <<>>]
    /\ pdfpc = "done"
    /\ tmpExists = FALSE
    /\ docOpen = FALSE
    /\ pageNo = 0
    /\ allText = <<>>
    /\ pdfWarnings = <<>>
    /\ pdfResult = Pending
    \* no value to annotate
    /\ reportMarks = <<>>
    /\ mpc = "done"
    \* no breakdown to compute
    /\ breakKey = <<"model">>
    /\ breakdown = Returned(<<>>)

\* a batch of 1 to MaxTexts texts is posted to /v1/simplify/batch; the other
\* components rest
InitBatch ==
    \* the run log: empty, no caller
    /\ file = <<>>
    /\ lock = "free"
    /\ pc = [w \in Writers |-> "idle"]
    /\ entry = [w \in Writers |-> None]
    /\ buf = [w \in Writers |-> <<>>]
    /\ written = <<>>
    /\ returned = {}
    /\ nwrites = 0
    /\ rpc = "idle"
    /\ rseen = <<>>
    /\ rres = Returned(<<>>)
    \* no file to load
    /\ content = MissingPath
    /\ runLoaded = Pending
    /\ demoLoaded = Pending
    /\ statsPath = Pending
    /\ statsList = Pending
    \* the scheduler is not started
    /\ running = FALSE
    /\ spc = "stopped"
    /\ mode = [console_only |-> TRUE, run_once |-> TRUE, json_format |-> FALSE]
    /\ iteration = 0
    /\ sleepLeft = 0
    /\ overview = <<>>
    /\ reportFiles = <<>>
    /\ failures = <<>>
    \* no text to clean
    /\ rawText = <<>>
    /\ cleaned = <<>>
    /\ recleaned = <<>>
    /\ cpc = "recleaned"
    \* no metric record to evaluate
    /\ metrics = JNull
    /\ verdict = NoVerdict
    /\ gpc = "evaluated"
    \* no text to score
    /\ outText = <<>>
    /\ cosine = 0
    /\ sentences = Returned(<<>>)
    /\ metricRec = Returned(JNull)
    /\ scores = Returned(JNull)
    \* a batch request that passed validation, not handled yet
    /\ logResponses = <<>>
    /\ batchTexts \in UNION {[1..n -> BatchTextValues] : n \in 1..MaxTexts}
    /\ llmCalls = <<>>
    /\ batchResponse = Pending
    \* no call of write_log_entry has failed
    /\ failedAt = [w \in Writers |-> "none"]
    /\ raised = <<>>
    \* no text to prepare for speech
    /\ ttsText = <<>>
    /\ spoken = <<>>
    /\ ttspc = "done"
    \* no PDF to extract
    /\ pdfDoc = [kind |-> "pdf", pages |-> <<>>]
    /\ pdfpc = "done"
    /\ tmpExists = FALSE
    /\ docOpen = FALSE
    /\ pageNo = 0
    /\ allText = <<>>
    /\ pdfWarnings = <<>>
    /\ pdfResult = Pending
    \* no value to annotate
    /\ reportMarks = <<>>
    /\ mpc = "done"
    \* no breakdown to compute
    /\ breakKey = <<"model">>
    /\ breakdown = Returned(<<>>)

\* concurrent writers and a reader on the run log
SpecLog == InitLog /\ [][LogNext]_vars

\* concurrent writers whose steps may fail
SpecFail == InitFail /\ [][FailNext]_vars

\* the loaders and the aggregation on a log file
SpecLoad == InitLoad /\ [][LoadNext]_vars

\* compute_aggregate_stats on a log of entries of any shape
SpecAgg == InitAgg /\ [][AggNext]_vars

\* the scheduler
SpecSched == InitSched /\ [][SchedNext]_vars
\* the scheduler's own steps go on: run_report returns or raises, time.sleep
\* returns after at most a minute; nothing forces a signal to arrive
SpecSchedFair ==
    /\ InitSched /\ [][SchedNext]_vars
    /\ WF_vars(LoopTest) /\ WF_spc(ReportEnds) /\ WF_vars(AfterReport) /\ WF_vars(Sleep)

\* the PDF cleanup, applied twice
SpecClean == InitClean /\ [][CleanNext]_vars

\* evaluate_guardrails on a metric record
SpecGuard == InitGuard /\ [][GuardNext]_vars

\* extract_pdf_text on an uploaded document
SpecPdf == InitPdf /\ [][PdfNext]_vars

\* preprocess_text_for_tts on a text
SpecTts == InitTts /\ [][TtsNext]_vars

\* the scoring functions on an output text
SpecScore == InitScore /\ [][ScoreNext]_vars

\* requests to /v1/log-run
SpecLogRun == InitLogRun /\ [][LogRunNext]_vars

\* a request to /v1/simplify/batch
SpecBatch == InitBatch /\ [][BatchNext]_vars

(***************************************************************************)
(* Claims about the run log                                                *)
(***************************************************************************)
AllIdle == \A w \in Writers : pc[w] = "idle"

\* the bytes of the lines of the entries es, one after the other
RECURSIVE LinesOf(_)
LinesOf(es) == IF es = <<>> THEN <<>> ELSE EntryLine(Head(es)) \o LinesOf(Tail(es))

\* same keys, and under each key an equal value of the same type
SameEntry(a, b) ==
    /\ a.t = "dict" /\ b.t = "dict"
    /\ Keys(a) = Keys(b)
    /\ \A k \in Keys(a) : Get(a, k).t = Get(b, k).t /\ Get(a, k) = Get(b, k)

\* no writer has bytes of its line still to reach the file
NoPending == \A w \in Writers : buf[w] = <<>>

\* C1: the run log is append-only.  Every step leaves the bytes already in
\* the file and the entries already written where they are and adds at most
\* one entry at the end; and whenever no write is in progress, load_all_logs
\* on the file returns exactly the entries written so far, in the order they
\* were written.
C1_AppendOnly ==
    /\ [](NoPending => LoadAllLogs(file) = Returned(written))
    /\ [][ /\ IsPrefix(file, file')
           /\ IsPrefix(written, written')
           /\ Len(written') <= Len(written) + 1 ]_vars

\* C1 witness: two calls have returned and the file reads back as those two
\* entries in the order written.
C1_Witness ==
    /\ AllIdle
    /\ Len(written) >= 2
    /\ written[1] # written[2]
    /\ LoadAllLogs(file) = Returned(written)

\* the writers between acquiring and releasing the lock
InCritical == {w \in Writers : pc[w] \in {"write", "flush", "unlock"}}

\* what the lock holder has put into the file of its own line so far
HolderPrefix ==
    IF \E w \in Writers : pc[w] = "flush"
    THEN LET w == CHOOSE x \in Writers : pc[x] = "flush"
             line == EntryLine(entry[w])
         IN  SubSeq(line, 1, Len(line) - Len(buf[w]))
    ELSE <<>>

\* C2: at most one writer is between acquiring and releasing the lock, and
\* the file is the whole lines of the entries written so far, one after the
\* other, followed only by the part of its line that the lock holder has
\* written so far: no line is interleaved with another and none is lost.
C2_LockSerialises ==
    /\ Cardinality(InCritical) <= 1
    /\ \A w \in InCritical : lock = w
    /\ file = LinesOf(written) \o HolderPrefix

\* C2 witness: one writer holds the lock with part of its line in the file
\* and part still to come, while the other writer waits for the lock.
C2_Witness ==
    /\ \E w \in Writers : pc[w] = "flush" /\ buf[w] # <<>> /\ HolderPrefix # <<>>
    /\ \E w \in Writers : pc[w] = "flock"
    /\ Cardinality(InCritical) = 1

\* C3 as claimed: a load_all_logs call concurrent with writers never raises,
\* returns only entries whose line is completely in the file, and returns
\* every entry completed before it started.
C3_ConcurrentLoad ==
    rpc = "done" =>
        /\ ~rres.raised
        /\ \A i \in 1..Len(rres.val) : \E j \in 1..Len(written) : rres.val[i] = written[j]
        /\ IsPrefix(rseen, rres.val)

\* C5 as claimed: no entry in the file holds raw text; the input is recorded
\* by its hash and length only and the output by its length only.
C5_NoRawText ==
    \A i \in 1..Len(written) :
        /\ ~HasKey(written[i], <<"input_text">>)
        /\ ~HasKey(written[i], <<"source_text">>)
        /\ ~HasKey(written[i], <<"output_text">>)
        /\ HasKey(written[i], <<"input_hash">>)

\* C6: round trip.  Whenever no write is in progress, load_all_logs on the
\* file does not raise and reads back each entry that write_log_entry has
\* returned with the same keys and, under each key, an equal value of the
\* same type.
C6_RoundTrip ==
    (NoPending /\ returned # {}) =>
        LET r == LoadAllLogs(file)
        IN  /\ ~r.raised
            /\ \A e \in returned : \E j \in 1..Len(r.val) : SameEntry(e, r.val[j])

\* C6 witness: an entry with a float score, an int score, a list of warnings
\* and escaped characters in its text has been returned and is read back,
\* and so has one whose scores are empty and whose user_feedback is null.
C6_Witness ==
    /\ NoPending
    /\ \E e \in returned :
          /\ Get(e, <<"scores">>).xs # <<>>
          /\ Get(Get(e, <<"scores">>), <<"lix">>).t = "float"
          /\ Get(Get(e, <<"scores">>), <<"word_count">>).t = "int"
          /\ Get(e, <<"warnings">>).xs # <<>>
          /\ \E j \in 1..Len(LoadAllLogs(file).val) : SameEntry(e, LoadAllLogs(file).val[j])
    /\ \E e \in returned :
          /\ Get(e, <<"user_feedback">>) = None
          /\ Get(e, <<"scores">>) = JDict(<<>>)
          /\ \E j \in 1..Len(LoadAllLogs(file).val) : SameEntry(e, LoadAllLogs(file).val[j])

(***************************************************************************)
(* Claims about loading and aggregating (SpecLoad)                         *)
(***************************************************************************)
\* the entries of the well-formed non-blank lines of a file, in file order
WellFormed(arg) ==
    LET lines   == SplitLines(Utf8Decode(arg.bytes).s)
        Good(l) == Strip(l) # <<>> /\ JsonLoads(Strip(l)).ok
        good    == SelectSeq(lines, Good)
    IN  [i \in 1..Len(good) |-> JsonLoads(Strip(good[i])).v]

\* C4: each of the two loaders, on every file, skips a line that is not
\* valid JSON without raising and goes on with the lines after it: what it
\* returns is exactly the entries of the well-formed non-blank lines, in
\* file order.
C4_LoadersSkipInvalid ==
    /\ ~IsPending(runLoaded) => runLoaded = Returned(WellFormed(content))
    /\ ~IsPending(demoLoaded) => demoLoaded = Returned(WellFormed(content))

\* C7: on a file whose lines all load, compute_aggregate_stats called with
\* the list of the file's entries, as run_report calls it, returns the same
\* report as when it is called with the path of the file, and neither call
\* raises.
C7_ListSameAsPath ==
    (/\ ~IsPending(statsPath)
     /\ ~IsPending(statsList)
     /\ ~DemoLoadAllLogs(content).raised) =>
        /\ ~statsPath.raised
        /\ ~statsList.raised
        /\ statsList.val = statsPath.val

(***************************************************************************)
(* Claims about the scheduler (SpecSched)                                  *)
(***************************************************************************)
\* C8: with file output and text format, once an iteration's report step is
\* over the overview file holds one block per iteration so far, in run order.
C8_OneBlockPerIteration ==
    (~mode.console_only /\ ~mode.json_format /\ spc # "report") =>
        /\ Len(overview) = iteration
        /\ \A i \in 1..Len(overview) : overview[i].run = i

(***************************************************************************)
(* Claims about the PDF cleanup (SpecClean)                                *)
(***************************************************************************)
\* C9: the cleanup is idempotent: cleaning a cleaned text gives the cleaned
\* text again.
C9_Idempotent == cpc = "recleaned" => recleaned = cleaned

(***************************************************************************)
(* Claims about the guardrails (SpecGuard)                                 *)
(***************************************************************************)
\* the display names of the table, in table order
GuardrailNames ==
    << <<"Short Sentences">>, <<"No Long Sentences">>,
       <<"Readable (ARI)">>, <<"Preserves Meaning">> >>

\* the metric fields the table reads, in table order
GuardrailFields ==
    << <<"avg_sentence_len_words">>, <<"pct_sentences_gt20">>,
       <<"ari_score">>, <<"meaning_cosine">> >>

\* the fields of m the table can compare: present and a number
Comparable(m) ==
    [i \in 1..4 |-> HasKey(m, GuardrailFields[i])
                       /\ Get(m, GuardrailFields[i]).t \in {"int", "float"}]

Threshold(i, x) ==
    IF i = 1 THEN x <= 15000
    ELSE IF i = 2 THEN x <= 10000
    ELSE IF i = 3 THEN x <= 8000
    ELSE x >= 700

\* what check i gives on its own: "pass", the name, or the name with the marker
Alone(m, i) ==
    IF ~Comparable(m)[i] THEN GuardrailNames[i] \o <<" (error)">>
    ELSE IF Threshold(i, Num(Get(m, GuardrailFields[i]))) THEN <<"pass">>
    ELSE GuardrailNames[i]

\* C11: when a check cannot be evaluated (its field is missing or holds no
\* number) evaluate_guardrails still returns: total is 4, that check is not
\* counted as passed and is listed as its name followed by ' (error)', and
\* every other check passes or fails as it does on its own, in table order.
C11_ErrorIsolated ==
    (gpc = "evaluated" /\ metrics.t = "dict") =>
        LET alone == [i \in 1..4 |-> Alone(metrics, i)]
        IN  /\ verdict.total = 4
            /\ verdict.passed = Cardinality({i \in 1..4 : alone[i] = <<"pass">>})
            /\ verdict.failed = Pick(alone, [i \in 1..4 |-> alone[i] # <<"pass">>])
            /\ \A i \in 1..4 : ~Comparable(metrics)[i] =>
                  \E j \in 1..Len(verdict.failed) :
                      verdict.failed[j] = GuardrailNames[i] \o <<" (error)">>

\* C11 witness: a record without ari_score and with a string as
\* meaning_cosine has been evaluated: the two other checks are counted (one
\* passes, one fails) and the two that raised carry the marker.
C11_Witness ==
    /\ gpc = "evaluated"
    /\ metrics = PartialRecord(JFloat(20000), JFloat(0), Absent, JStr(<<"n/a">>))
    /\ verdict = [passed |-> 1, total |-> 4,
                  failed |-> << <<"Short Sentences">>,
                                <<"Readable (ARI)", " (error)">>,
                                <<"Preserves Meaning", " (error)">> >>]

(***************************************************************************)
(* Claims about the aggregate report (SpecAgg)                             *)
(***************************************************************************)
\* the entries of the file that is aggregated
Entries == DemoLoadAllLogs(content).val

\* a report has been computed over at least one entry
Reported == ~IsPending(statsPath) /\ ~statsPath.raised /\ Entries # <<>>

Summary == Get(statsPath.val, <<"guardrails_summary">>)

\* the names in the guardrails_failed list of an entry
FailedNames(e) ==
    IF HasKey(e, <<"guardrails_failed">>)
    THEN {Get(e, <<"guardrails_failed">>).xs[i].s :
             i \in 1..Len(Get(e, <<"guardrails_failed">>).xs)}
    ELSE {}

\* C12: in a report over entries whose guardrails_failed lists come from
\* evaluate_guardrails, every key of failure_counts is one of the four
\* guardrail names of the table and its count is the number of entries that
\* failed that guardrail.
C12_FailureCountKeys ==
    Reported =>
        LET counts == Get(Summary, <<"failure_counts">>).xs
        IN  \A i \in 1..Len(counts) :
               /\ \E j \in 1..4 : counts[i].k = GuardrailNames[j]
               /\ counts[i].v.n =
                     Cardinality({n \in 1..Len(Entries) : counts[i].k \in FailedNames(Entries[n])})

\* the sum over the entries of an integer field, 0 where an entry lacks it
FieldSum(k) ==
    Sum([n \in 1..Len(Entries) |-> IF HasKey(Entries[n], k) THEN Get(Entries[n], k).n ELSE 0])

\* C13 as claimed: total_passed and total_checks are the sums of
\* guardrails_passed and guardrails_total over the entries, and pass_rate is
\* exactly total_passed / total_checks * 100 when total_checks > 0, else 0.
C13_PassRateExact ==
    Reported =>
        LET passed == FieldSum(<<"guardrails_passed">>)
            total  == FieldSum(<<"guardrails_total">>)
            rate   == Get(Summary, <<"pass_rate">>)
        IN  /\ Get(Summary, <<"total_passed">>) = JInt(passed)
            /\ Get(Summary, <<"total_checks">>) = JInt(total)
            /\ IF total > 0 THEN Num(rate) * total = passed * 100000 ELSE Num(rate) = 0

\* C13 amended: the sums are as claimed, and pass_rate is
\* total_passed / total_checks * 100 rounded to one decimal (a float, at
\* most 0.05 from the exact quotient) when total_checks > 0, else the int 0.
C13_PassRateRounded ==
    Reported =>
        LET passed == FieldSum(<<"guardrails_passed">>)
            total  == FieldSum(<<"guardrails_total">>)
            rate   == Get(Summary, <<"pass_rate">>)
            diff   == rate.n * total - passed * 100000
        IN  /\ Get(Summary, <<"total_passed">>) = JInt(passed)
            /\ Get(Summary, <<"total_checks">>) = JInt(total)
            /\ IF total > 0
               THEN /\ rate.t = "float"
                    /\ rate.n % 100 = 0
                    /\ diff <= 50 * total
                    /\ -diff <= 50 * total
               ELSE rate = JInt(0)

\* C13 witness: a report over three entries with 5 of 12 checks passed,
\* where the quotient 41.66... is reported as 41.7.
C13_Witness ==
    /\ Reported
    /\ Get(Summary, <<"total_passed">>) = JInt(5)
    /\ Get(Summary, <<"total_checks">>) = JInt(12)
    /\ Get(Summary, <<"pass_rate">>) = JFloat(41700)
    /\ Len(Entries) = 3

\* the entries whose metric record has a number under key k
WithNumber(k) ==
    {n \in 1..Len(Entries) :
        /\ HasKey(Entries[n], <<"metrics">>)
        /\ HasKey(Get(Entries[n], <<"metrics">>), k)
        /\ Get(Get(Entries[n], <<"metrics">>), k).t \in {"int", "float"}}

\* C14: for every metric key that is a number in at least one entry's metric
\* record, avg_metrics has avg_<key>, the mean of the key over exactly the
\* entries where it is a number, rounded to 2 decimals, whatever the order of
\* the entries and whatever keys the first entry has.
C14_AverageEveryKey ==
    Reported =>
        \A f \in 1..4 :
            LET k    == GuardrailFields[f]
                ns   == WithNumber(k)
                sum  == Sum([n \in 1..Len(Entries) |->
                                IF n \in ns THEN Num(Get(Get(Entries[n], <<"metrics">>), k)) ELSE 0])
                avgs == Get(statsPath.val, <<"avg_metrics">>)
            IN  ns # {} =>
                   /\ HasKey(avgs, <<"avg_">> \o k)
                   /\ LET v == Get(avgs, <<"avg_">> \o k).n * Cardinality(ns) - sum
                      IN  v <= 5 * Cardinality(ns) /\ -v <= 5 * Cardinality(ns)

(***************************************************************************)
(* Claims about zero entries (SpecLoad)                                    *)
(***************************************************************************)
\* a call has returned {total_entries: 0, avg_metrics: {}, guardrails_summary: {}}
ReturnedEmptyReport(r) ==
    /\ ~r.raised
    /\ r.val = JDict(<< KV(<<"total_entries">>, JInt(0)),
                        KV(<<"avg_metrics">>, JDict(<<>>)),
                        KV(<<"guardrails_summary">>, JDict(<<>>)) >>)

\* C15: over zero entries (the log file is missing or empty, or the sequence
\* of entries loaded from it is empty) compute_aggregate_stats returns
\* exactly the empty report and does not raise, given the path and given the
\* sequence.
C15_ZeroEntries ==
    (~content.exists \/ content.bytes = <<>>) =>
        /\ ~IsPending(statsPath) => ReturnedEmptyReport(statsPath)
        /\ ~IsPending(statsList) => ReturnedEmptyReport(statsList)

(***************************************************************************)
(* Claims about scoring a text (SpecScore)                                 *)
(***************************************************************************)
\* the output text yields no sentence or no word
Unscorable == SplitSentences(outText) = <<>> \/ GetWords(outText) = <<>>

\* a record of numbers that are all 0
AllZero(rec) ==
    /\ rec.t = "dict"
    /\ rec.xs # <<>>
    /\ \A i \in 1..Len(rec.xs) : rec.xs[i].v.t \in {"int", "float"} /\ rec.xs[i].v.n = 0

\* C16: when the output text yields no sentence or no word, compute_metrics
\* and compute_simple_scores both return a record whose metrics are all 0
C16_ZeroRecord ==
    Unscorable =>
        /\ ~IsPending(metricRec) => ~metricRec.raised /\ AllZero(metricRec.val)
        /\ ~IsPending(scores) => ~scores.raised /\ AllZero(scores.val)

\* the abbreviations the sentence splitter is to leave alone
Listed ==
    {<<"Mr">>, <<"Mrs">>, <<"Ms">>, <<"Dr">>, <<"Prof">>, <<"Jr">>, <<"Sr">>, <<"vs">>,
     <<"etc">>, <<"e", ".", "g">>, <<"i", ".", "e">>, <<"z", ".", "B">>,
     <<"d", ".", "h">>, <<"usw">>, <<"ggfs">>}

\* token i of s is the period of a listed abbreviation that stands as a whole
\* word, and whitespace follows it
AbbrevPeriod(s, i) ==
    /\ s[i] = "."
    /\ i < Len(s) /\ s[i + 1] \in Whitespace
    /\ \E a \in Listed :
          /\ i - Len(a) >= 1
          /\ SubSeq(s, i - Len(a), i - 1) = a
          /\ i - Len(a) = 1 \/ s[i - Len(a) - 1] \notin WordTokens

\* a run of '.', '!', '?' starts at token i of s, whitespace follows the run,
\* and the run is not the period of a listed abbreviation
BoundaryAt(s, i) ==
    /\ s[i] \in SentenceEnd
    /\ i = 1 \/ s[i - 1] \notin SentenceEnd
    /\ RunEnd(SentenceEnd, s, i) < Len(s)
    /\ s[RunEnd(SentenceEnd, s, i) + 1] \in Whitespace
    /\ ~AbbrevPeriod(s, RunEnd(SentenceEnd, s, i))

\* the pieces of s between its boundaries, from token i on
RECURSIVE PiecesBetween(_, _, _)
PiecesBetween(s, i, cur) ==
    IF i > Len(s) THEN <<cur>>
    ELSE IF BoundaryAt(s, i)
    THEN <<cur>> \o PiecesBetween(s, RunEnd(Whitespace, s, RunEnd(SentenceEnd, s, i) + 1) + 1, <<>>)
    ELSE PiecesBetween(s, i + 1, Append(cur, s[i]))

\* s with every whitespace token read as a space and every protected period
\* ("_DOT") read as the period it stands for
RECURSIVE Plain(_)
Plain(s) ==
    IF s = <<>> THEN <<>>
    ELSE IF Len(s) >= 2 /\ s[1] = "_" /\ s[2] = "DOT" THEN <<".">> \o Plain(SubSeq(s, 3, Len(s)))
    ELSE IF s[1] \in Whitespace THEN <<" ">> \o Plain(Tail(s))
    ELSE <<s[1]>> \o Plain(Tail(s))

PlainAll(ss) == [i \in 1..Len(ss) |-> Plain(ss[i])]

DrSmith ==
    <<"Dr", ".", " ", "Smith", " ", "went", " ", "home", ".", " ",
      "He", " ", "was", " ", "tired", ".">>

\* C17: the sentences split_sentences returns are the non-empty pieces of the
\* text (without its leading and trailing whitespace) between its boundaries,
\* a boundary being every run of '.', '!', '?' followed by whitespace except
\* the period of a listed abbreviation; 'Dr. Smith went home. He was tired.'
\* yields 2 sentences
C17_Boundaries ==
    ~IsPending(sentences) =>
        /\ PlainAll(sentences.val) =
              PlainAll(StripNonEmpty(PiecesBetween(Strip(outText), 1, <<>>)))
        /\ outText = DrSmith => Len(sentences.val) = 2

\* the example has been split, at the end of its first sentence only
C17_Witness ==
    /\ outText = DrSmith
    /\ ~IsPending(sentences)
    /\ PlainAll(sentences.val) =
          << <<"Dr", ".", " ", "Smith", " ", "went", " ", "home">>,
             <<"He", " ", "was", " ", "tired", ".">> >>

(***************************************************************************)
(* Claims about the API endpoints (SpecLogRun, SpecBatch)                  *)
(***************************************************************************)
\* an entry with this run_id is completely in the run log file
InRunLog(run_id) ==
    \E j \in 1..Len(written) : Get(written[j], <<"run_id">>) = JStr(run_id)

\* C18: every response of /v1/log-run that says logged = true is for a run
\* whose entry is in the run log file when the response is returned
C18_LoggedIsWritten ==
    \A i \in 1..Len(logResponses) :
        logResponses[i].logged => InRunLog(logResponses[i].run_id)

\* text number i of the batch fails before the LLM is asked: it has fewer
\* than 10 characters after trimming or more than 5000 characters
Rejected(i) ==
    batchTexts[i].core < 10 \/ batchTexts[i].core + batchTexts[i].pad > 5000

\* the calls of the LLM made for text number i (counted from 1)
CallsFor(i) == {j \in 1..Len(llmCalls) : llmCalls[j].index = i - 1}

\* result r records a failure
Failure(r) == r.simplified_text = None /\ r.error # None

\* C19: simplify_batch returns one result per text, in input order, result i
\* with index i; the result of a text is a failure when the text is too
\* short or too long (the LLM is then not called for it) or when its own LLM
\* call raised, and else carries what its own LLM call returned; the two
\* counts add up to the number of texts
C19_OneResultPerText ==
    ~IsPending(batchResponse) =>
        /\ ~batchResponse.raised
        /\ Len(batchResponse.val.results) = Len(batchTexts)
        /\ \A i \in 1..Len(batchTexts) :
              /\ batchResponse.val.results[i].index = i - 1
              /\ Rejected(i) =>
                    CallsFor(i) = {} /\ Failure(batchResponse.val.results[i])
              /\ ~Rejected(i) =>
                    /\ Cardinality(CallsFor(i)) = 1
                    /\ \A j \in CallsFor(i) :
                          /\ llmCalls[j].text = batchTexts[i]
                          /\ IF llmCalls[j].outcome.raises # ""
                             THEN Failure(batchResponse.val.results[i])
                             ELSE /\ batchResponse.val.results[i].simplified_text =
                                        llmCalls[j].outcome.content
                                  /\ batchResponse.val.results[i].error = None
        /\ batchResponse.val.successful_count + batchResponse.val.failed_count =
              Len(batchTexts)

\* a batch of a text that is too short, one whose LLM call raised and one
\* that was simplified has been answered: one success, two failures
C19_Witness ==
    /\ ~IsPending(batchResponse)
    /\ batchTexts = <<Text(9, 0), Text(10, 0), Text(4990, 10)>>
    /\ Len(llmCalls) = 2
    /\ llmCalls[1].outcome.raises = "Exception"
    /\ llmCalls[2].outcome = [raises |-> "", content |-> JStr(<<"simple">>)]
    /\ batchResponse.val.successful_count = 1
    /\ batchResponse.val.failed_count = 2

(***************************************************************************)
(* Claims about failures inside write_log_entry (SpecFail)                 *)
(***************************************************************************)
\* writer w's call ends in this step after one of its steps failed
EndsFailed(w) == failedAt[w] # "none" /\ pc[w] # "idle" /\ pc'[w] = "idle"

SplitAt(s, i) ==
    /\ i + 3 <= Len(s)
    /\ s[i] \in WordChars /\ s[i + 1] = "-" /\ s[i + 2] = "\n" /\ s[i + 3] \in WordChars

\* C21: after the de-hyphenation step of clean_extracted_text no occurrence
\* of word character, hyphen, newline, word character remains in the text
C21_NoSplitRemains ==
    cpc # "raw" /\ rawText # <<>> =>
        \A i \in 1..Len(Dehyphenate(rawText, 1)) : ~SplitAt(Dehyphenate(rawText, 1), i)

\* the newline at position i of s belongs to a run of exactly two newlines
InPair(s, i) ==
    LET before == i > 1 /\ s[i - 1] = "\n"
        after == i < Len(s) /\ s[i + 1] = "\n"
    IN  \/ before /\ ~after /\ ~(i > 2 /\ s[i - 2] = "\n")
        \/ after /\ ~before /\ ~(i + 1 < Len(s) /\ s[i + 2] = "\n")

\* C22: every newline in the output of clean_extracted_text belongs to a
\* paragraph break of exactly two newlines
C22_OnlyParagraphBreaks ==
    cpc # "raw" => \A i \in 1..Len(cleaned) : cleaned[i] = "\n" => InPair(cleaned, i)

(***************************************************************************)
(* Claims about preparing a text for speech (SpecTts)                      *)
(***************************************************************************)
\* the letters the claim names, as far as the texts have them
ClaimLetters == {"a", "b", "A", "U+00E4", "U+00DF"}

\* C23: in the output of preprocess_text_for_tts no mark '.', '!', '?', ',',
\* ':' or ';' is immediately followed by a letter
C23_SpaceAfterMark ==
    ttspc = "done" =>
        \A i \in 1..Len(spoken) - 1 :
            spoken[i] \in {".", "!", "?", ",", ":", ";"} => spoken[i + 1] \notin ClaimLetters

\* characters i to j of s are '<', one or more characters other than '>', '>'
Span(s, i, j) ==
    /\ i + 1 < j
    /\ s[i] = "<" /\ s[j] = ">"
    /\ \A k \in (i + 1)..(j - 1) : s[k] # ">"

\* C24: the output of preprocess_text_for_tts contains no span that is
\* delimited by angle brackets
C24_NoSpan ==
    ttspc = "done" => \A i \in 1..Len(spoken), j \in 1..Len(spoken) : ~Span(spoken, i, j)

\* a text of nested brackets has been prepared: the inner span and the
\* bracket before it are gone, the bracket after it is left
C24_Witness ==
    /\ ttspc = "done"
    /\ ttsText = <<"<", "<", "a", ">", ">">>
    /\ spoken = <<">">>

(***************************************************************************)
(* Claims about the scheduler's shutdown (SpecSchedFair)                   *)
(***************************************************************************)
\* C25: once a signal has been handled no further iteration starts, and the
\* scheduler eventually leaves its loop and stops, wherever the signal came.
C25_GracefulShutdown ==
    /\ [][~running => iteration' = iteration]_vars
    /\ [](~running => <>(spc = "stopped"))

\* a signal came during the sleep after the second report: the sleep was cut
\* short and the scheduler has stopped
C25_Witness ==
    /\ ~running
    /\ spc = "stopped"
    /\ iteration = 2
    /\ sleepLeft = 1

\* C26: an exception raised while a report is generated stays in its
\* iteration: the failing step leaves the flag, the counter and the mode
\* alone; in continuous mode the scheduler then sleeps the whole interval and,
\* unless a signal comes or the run bound is reached, starts the next
\* iteration; in run-once mode it stops after that single iteration.
C26_FailureContained ==
    /\ [][Len(failures') > Len(failures) =>
            /\ spc' = "after"
            /\ UNCHANGED <<running, mode, iteration>>]_vars
    /\ [][(spc = "after" /\ spc' # spc) =>
            IF mode.run_once
            THEN spc' = "stopped"
            ELSE spc' = "sleep" /\ sleepLeft' = SleepTicks]_vars
    /\ \A i \in 1..(MaxIterations - 1) :
         [](( /\ ~mode.run_once
              /\ iteration = i
              /\ Len(failures) = i
              /\ failures[i].run = i ) => <>(iteration = i + 1 \/ ~running))
    /\ []((mode.run_once /\ Len(failures) = 1) => <>(spc = "stopped" /\ iteration = 1))
    /\ [](mode.run_once => iteration <= 1)

\* every report has failed, and the scheduler, left alone, is at its last
\* iteration
C26_Witness ==
    /\ ~mode.run_once
    /\ running
    /\ iteration = MaxIterations
    /\ Len(failures) = MaxIterations
    /\ spc = "sleep"

(***************************************************************************)
(* Claims about the PDF extraction (SpecPdf)                               *)
(***************************************************************************)
\* C27: however extract_pdf_text ends, its temporary file is gone, and what
\* it raises is a ValueError.
C27_TempRemovedValueError ==
    pdfpc = "done" =>
        /\ ~tmpExists
        /\ pdfResult.raised => pdfResult.exc = "ValueError"

(***************************************************************************)
(* Claims about the reporter's thresholds (SpecGuard)                      *)
(***************************************************************************)
\* C28: for each of the four metrics and every number the record holds for
\* it, the report marks the value as a violation exactly when
\* evaluate_guardrails lists the metric's guardrail as failed, and as passing
\* exactly when it does not.
C28_ReporterAgrees ==
    (gpc = "evaluated" /\ mpc = "done") =>
        \A i \in 1..Len(GUARDRAILS) :
            (HasKey(metrics, GUARDRAILS[i].key) /\ IsNumber(Get(metrics, GUARDRAILS[i].key))) =>
                /\ reportMarks[i] \in {"violation", "pass"}
                /\ reportMarks[i] = "violation" <=>
                      \E j \in 1..Len(verdict.failed) : verdict.failed[j] = GUARDRAILS[i].name

\* every value sits on its threshold: all four are marked as passing and no
\* guardrail has failed
C28_Witness ==
    /\ gpc = "evaluated"
    /\ mpc = "done"
    /\ metrics = MetricRecord(JFloat(15000), JFloat(10000), JFloat(8000), JFloat(700))
    /\ reportMarks = <<"pass", "pass", "pass", "pass">>
    /\ verdict.failed = <<>>

(***************************************************************************)
(* Claims about the breakdowns (SpecLoad)                                  *)
(***************************************************************************)
\* C29: _compute_breakdown partitions the loaded entries by their value of
\* the key ("unknown" when it is absent): it returns one row per value, each
\* entry belongs to exactly one row, no row is empty, the counts add up to the
\* number of entries, and a row's pass_rate and avg_metrics are those of the
\* aggregate over the entries of its group alone.
C29_BreakdownPartitions ==
    (~IsPending(breakdown) /\ ~IsPending(demoLoaded) /\ ~demoLoaded.raised) =>
        /\ ~breakdown.raised
        /\ Sum([n \in 1..Len(breakdown.val) |-> breakdown.val[n].count]) = Len(demoLoaded.val)
        /\ \A n \in 1..Len(breakdown.val) :
             /\ breakdown.val[n].count > 0
             /\ breakdown.val[n].count =
                    Len(GroupOf(demoLoaded.val, breakKey, breakdown.val[n].group))
             /\ ~StatsOf(Returned(GroupOf(demoLoaded.val, breakKey, breakdown.val[n].group))).raised
             /\ breakdown.val[n].pass_rate =
                    Get(Get(StatsOf(Returned(GroupOf(demoLoaded.val, breakKey,
                                                     breakdown.val[n].group))).val,
                            <<"guardrails_summary">>), <<"pass_rate">>)
             /\ breakdown.val[n].avg_metrics =
                    Get(StatsOf(Returned(GroupOf(demoLoaded.val, breakKey,
                                                 breakdown.val[n].group))).val,
                        <<"avg_metrics">>)
        /\ \A i \in 1..Len(demoLoaded.val) :
             Cardinality({n \in 1..Len(breakdown.val) :
                            breakdown.val[n].group =
                                GetOr(demoLoaded.val[i], breakKey, JStr(<<"unknown">>))}) = 1

(***************************************************************************)
(* Claims about the word counts of the sentences (SpecScore)               *)
(***************************************************************************)
\* C30: the word counts of the sentences that compute_metrics adds up are
\* together the number of words get_words finds in the whole text, so that
\* avg_sentence_len_words is the number of words of the text divided by the
\* number of its sentences, rounded to one decimal.
C30_WordsPreserved ==
    (~IsPending(sentences) /\ ~IsPending(metricRec)) =>
        /\ Sum(SentLengths(sentences.val)) = Len(GetWords(outText))
        /\ (sentences.val # <<>> /\ GetWords(outText) # <<>>) =>
              Get(metricRec.val, <<"avg_sentence_len_words">>) =
                  JFloat(RoundTo(Len(GetWords(outText)), Len(sentences.val), 1))

=============================================================================
